---- MODULE Spec2Model ----
(***************************************************************************)
(* A model of mcp_ical: the CalDAV calendar manager (caldav_client.py) and *)
(* the event / recurrence-rule codec (models.py).                          *)
(*                                                                         *)
(* Text is modelled as a sequence of one-character strings, so that        *)
(* percent-decoding, the alarm trigger pattern and the recurrence-rule     *)
(* grammar are computed the way the code computes them.  Python's None is  *)
(* the value None below; a missing attribute of a vobject component is the *)
(* empty sequence of its contents list.                                    *)
(***************************************************************************)
EXTENDS Integers, Sequences, FiniteSets, TLC

VARIABLES
  calName,   \* display name of each collection, in the store's enumeration order
  store,     \* store[c]: the records of collection c, in the order the store returns them
  last,      \* the call in progress: its inputs, the faults injected, its outcome
  hist       \* history of the record followed: who made it, the all_day last asked for

vars == <<calName, store, last, hist>>

----------------------------------------------------------------------------
(* Bounds of the model *)

\* number of collections of the store
NCal == 3
\* most records the store holds at once
MaxEvents == 3
\* longest trigger text enumerated character by character
MaxTriggerLen == 5
\* most updates applied to the record followed
MaxUpdates == 2
\* largest interval and occurrence count of the rules enumerated
MaxInterval == 2
\* longest days_of_week list of the rules enumerated
MaxDays == 2
\* most parts of the rule texts enumerated
MaxParts == 3
\* most events created in one run of the life-cycle specification
MaxMade == 2

----------------------------------------------------------------------------
(* Python values *)

\* None, for a text-valued attribute: no text is equal to it
None == <<"None">>

\* None / "not given", for a display name
NoName == "<None>"

\* Python truthiness of an optional text: None and "" are falsy
Truthy(s) == s # None /\ s # <<>>

\* Python truthiness of an optional display name
TruthyName(n) == n # NoName /\ n # ""

----------------------------------------------------------------------------
(* urllib.parse.unquote *)

HexDigits == {"0", "2", "5", "A", "B"}

HexVal(c) ==
  CASE c = "0" -> 0 [] c = "2" -> 2 [] c = "5" -> 5 [] c = "A" -> 10 [] c = "B" -> 11

\* the character of a byte below 0x80; a byte from 0x80 on is never valid
\* UTF-8 on its own and is decoded (errors="replace") to U+FFFD
Chr(n) ==
  CASE n = 0 -> "\\x00" [] n = 2 -> "\\x02" [] n = 5 -> "\\x05"
    [] n = 10 -> "\\n" [] n = 11 -> "\\x0b"
    [] n = 32 -> " " [] n = 34 -> "dquote" [] n = 37 -> "%"
    [] n = 42 -> "*" [] n = 43 -> "+"
    [] n = 80 -> "P" [] n = 82 -> "R" [] n = 85 -> "U"
    [] n = 90 -> "Z" [] n = 91 -> "["
    [] OTHER -> "U+FFFD"

RECURSIVE unquote(_)
unquote(s) ==
  IF s = <<>> THEN <<>>
  ELSE IF s[1] = "%" /\ Len(s) >= 3 /\ s[2] \in HexDigits /\ s[3] \in HexDigits
       THEN <<Chr(16 * HexVal(s[2]) + HexVal(s[3]))>> \o unquote(SubSeq(s, 4, Len(s)))
       ELSE <<s[1]>> \o unquote(Tail(s))

----------------------------------------------------------------------------
(* Optional values: <<>> is Python's None, <<x>> is the value x *)

Nil == <<>>

Some(x) == <<x>>

----------------------------------------------------------------------------
(* datetime, strftime("%Y%m%dT%H%M%SZ") and strptime *)

\* A datetime: its calendar second `at`, whether its microsecond field is
\* non-zero, and its tzinfo.  The second "y999" lies in the year 999.
Instants == {"y999", "d1", "d2"}

TzInfos == {"naive", "utc", "+02:00"}

DateTime(at, micro, tz) == [at |-> at, micro |-> micro, tz |-> tz]

\* strftime drops the microseconds and the tzinfo and does not pad the
\* year: the year 999 is written "999", and the text is that of 1 October 9990
strftime(d) ==
  [form |-> "TZ", at |-> IF d.at = "y999" THEN "y9990-10-01" ELSE d.at]

\* Text forms of an UNTIL value: "TZ" is YYYYMMDDTHHMMSSZ, "D" is YYYYMMDD,
\* "T" has a T and no Z, "junk" is anything else without a T
StampForms == {"TZ", "D", "T", "junk"}

\* until_str parsed as lines 96-99 do: [ok, value]; not ok is ValueError
strptime_until(t) ==
  IF t.form \in {"TZ", "D"}
  THEN [ok |-> TRUE, value |-> DateTime(t.at, FALSE, "naive")]
  ELSE [ok |-> FALSE, value |-> DateTime("d1", FALSE, "naive")]

----------------------------------------------------------------------------
(* The recurrence-rule text: the parts between ';', each split at its      *)
(* first '='.  A value is a comma-separated list of words, a decimal       *)
(* numeral or a timestamp text.                                            *)

Words(l) == [words |-> l, num |-> Nil, stamp |-> Nil]

Num(n) == [words |-> <<>>, num |-> Some(n), stamp |-> Nil]

Stamp(t) == [words |-> <<>>, num |-> Nil, stamp |-> Some(t)]

\* a part KEY=VALUE; a part without '=' has eq = FALSE
Part(key, val) == [eq |-> TRUE, key |-> key, val |-> val]

Bare(word) == [eq |-> FALSE, key |-> word, val |-> Words(<<>>)]

\* int(text): [ok, value]; not ok is ValueError
int(v) == IF v.num # Nil THEN [ok |-> TRUE, value |-> v.num[1]]
          ELSE [ok |-> FALSE, value |-> 0]

\* the dict `parts` of from_ical_string: a later part overrides an earlier one
RECURSIVE parts_of(_)
parts_of(text) ==
  IF text = <<>> THEN [k \in {} |-> Words(<<>>)]
  ELSE LET init == parts_of(SubSeq(text, 1, Len(text) - 1))
           p == text[Len(text)]
       IN IF p.eq
          THEN [k \in DOMAIN init \cup {p.key} |-> IF k = p.key THEN p.val ELSE init[k]]
          ELSE init

----------------------------------------------------------------------------
(* RecurrenceRule (models.py) *)

FrequencyName(f) ==
  CASE f = 0 -> "DAILY" [] f = 1 -> "WEEKLY" [] f = 2 -> "MONTHLY" [] f = 3 -> "YEARLY"

FrequencyOf(w) ==
  CASE w = "DAILY" -> 0 [] w = "WEEKLY" -> 1 [] w = "MONTHLY" -> 2 [] w = "YEARLY" -> 3
    [] OTHER -> 0

WeekdayTokens == <<"SU", "MO", "TU", "WE", "TH", "FR", "SA">>

WeekdayName(d) == WeekdayTokens[d]

WeekdayOf(w) == CHOOSE d \in 1..7 : WeekdayTokens[d] = w

IsWeekdayToken(w) == \E d \in 1..7 : WeekdayTokens[d] = w

\* the fields of a RecurrenceRule; end_date, occurrence_count and
\* days_of_week are optional
Rule(f, i, e, c, d) ==
  [frequency |-> f, interval |-> i, end_date |-> e, occurrence_count |-> c,
   days_of_week |-> d]

\* validation without the end-condition validator: Field(ge=1) only
validate_interval_only(r) == r.interval >= 1

\* validate_end_conditions, and Field(ge=1) on interval
validate_end_conditions(r) ==
  /\ ~(r.end_date # Nil /\ r.occurrence_count # Nil)
  /\ r.interval >= 1

RECURSIVE MapDays(_)
MapDays(days) ==
  IF days = <<>> THEN <<>> ELSE <<WeekdayName(days[1])>> \o MapDays(Tail(days))

\* KnownDays with an unknown token ending the loop
RECURSIVE KnownDays_stop(_)
KnownDays_stop(ws) ==
  IF ws = <<>> \/ ~IsWeekdayToken(ws[1]) THEN <<>>
  ELSE <<WeekdayOf(ws[1])>> \o KnownDays_stop(Tail(ws))

\* the loop of lines 111-113: the tokens of BYDAY that the map knows
RECURSIVE KnownDays(_)
KnownDays(ws) ==
  IF ws = <<>> THEN <<>>
  ELSE (IF IsWeekdayToken(ws[1]) THEN <<WeekdayOf(ws[1])>> ELSE <<>>) \o KnownDays(Tail(ws))

\* RecurrenceRule(frequency=f, ...): [ok, rule]; not ok is the
\* ValidationError that construction raises
RecurrenceRule(f, i, e, c, d) ==
  [ok |-> validate_end_conditions(Rule(f, i, e, c, d)), rule |-> Rule(f, i, e, c, d)]

\* CalDAVManager._recurrence_rule_to_ical
recurrence_rule_to_ical(r) ==
  <<Part("FREQ", Words(<<FrequencyName(r.frequency)>>))>>
  \o (IF r.interval > 1 THEN <<Part("INTERVAL", Num(r.interval))>> ELSE <<>>)
  \o (IF r.days_of_week # Nil /\ r.days_of_week[1] # <<>>
      THEN <<Part("BYDAY", Words(MapDays(r.days_of_week[1])))>> ELSE <<>>)
  \o (IF r.end_date # Nil
      THEN <<Part("UNTIL", Stamp(strftime(r.end_date[1])))>>
      ELSE IF r.occurrence_count # Nil /\ r.occurrence_count[1] # 0
           THEN <<Part("COUNT", Num(r.occurrence_count[1]))>>
           ELSE <<>>)

\* from_ical_string with "if" for the "elif" of line 102: COUNT is read
\* whether or not the text has an UNTIL
from_ical_string_count_always(text) ==
  LET parts == parts_of(text)
      has(k) == k \in DOMAIN parts
      freqv == IF has("FREQ") THEN parts["FREQ"] ELSE Words(<<"DAILY">>)
      frequency == IF Len(freqv.words) = 1 THEN FrequencyOf(freqv.words[1]) ELSE 0
      interval == IF has("INTERVAL") THEN int(parts["INTERVAL"])
                  ELSE [ok |-> TRUE, value |-> 1]
      until == IF has("UNTIL") /\ parts["UNTIL"].stamp # Nil
               THEN strptime_until(parts["UNTIL"].stamp[1])
               ELSE [ok |-> FALSE, value |-> DateTime("d1", FALSE, "naive")]
      end_date == IF has("UNTIL") /\ until.ok THEN Some(until.value) ELSE Nil
      count == IF has("COUNT") THEN int(parts["COUNT"])
               ELSE [ok |-> TRUE, value |-> 0]
      occurrence_count == IF has("COUNT") /\ count.ok
                          THEN Some(count.value) ELSE Nil
      days == IF has("BYDAY") THEN KnownDays(parts["BYDAY"].words) ELSE <<>>
      days_of_week == IF days # <<>> THEN Some(days) ELSE Nil
      rule == Rule(frequency, IF interval.ok THEN interval.value ELSE 1,
                   end_date, occurrence_count, days_of_week)
  IN [ok |-> interval.ok /\ count.ok /\ validate_end_conditions(rule),
      rule |-> rule]

\* RecurrenceRule.from_ical_string: [ok, rule]; not ok is an exception
\* (int() of a malformed numeral, or the model's validation)
from_ical_string(text) ==
  LET parts == parts_of(text)
      has(k) == k \in DOMAIN parts
      freqv == IF has("FREQ") THEN parts["FREQ"] ELSE Words(<<"DAILY">>)
      frequency == IF Len(freqv.words) = 1 THEN FrequencyOf(freqv.words[1]) ELSE 0
      interval == IF has("INTERVAL") THEN int(parts["INTERVAL"])
                  ELSE [ok |-> TRUE, value |-> 1]
      until == IF has("UNTIL") /\ parts["UNTIL"].stamp # Nil
               THEN strptime_until(parts["UNTIL"].stamp[1])
               ELSE [ok |-> FALSE, value |-> DateTime("d1", FALSE, "naive")]
      end_date == IF has("UNTIL") /\ until.ok THEN Some(until.value) ELSE Nil
      count == IF ~has("UNTIL") /\ has("COUNT") THEN int(parts["COUNT"])
               ELSE [ok |-> TRUE, value |-> 0]
      occurrence_count == IF ~has("UNTIL") /\ has("COUNT") /\ count.ok
                          THEN Some(count.value) ELSE Nil
      days == IF has("BYDAY") THEN KnownDays(parts["BYDAY"].words) ELSE <<>>
      days_of_week == IF days # <<>> THEN Some(days) ELSE Nil
      rule == Rule(frequency, IF interval.ok THEN interval.value ELSE 1,
                   end_date, occurrence_count, days_of_week)
  IN [ok |-> interval.ok /\ count.ok /\ validate_end_conditions(rule),
      rule |-> rule]

----------------------------------------------------------------------------
(* Alarm triggers *)

Digits == {"0", "1", "2", "3", "4", "5", "6", "7", "8", "9"}

DigitChar(d) == <<"0", "1", "2", "3", "4", "5", "6", "7", "8", "9">>[d + 1]

DigitVal(c) == CHOOSE d \in 0..9 : DigitChar(d) = c

\* "%d" of a natural number
RECURSIVE Decimal(_)
Decimal(n) == IF n < 10 THEN <<DigitChar(n)>>
              ELSE Decimal(n \div 10) \o <<DigitChar(n % 10)>>

\* "%02d" of a number below 100
TwoDigits(n) == <<DigitChar(n \div 10), DigitChar(n % 10)>>

\* int() of a run of decimal digits
RECURSIVE IntOfDigits(_)
IntOfDigits(ds) ==
  IF ds = <<>> THEN 0
  ELSE 10 * IntOfDigits(SubSeq(ds, 1, Len(ds) - 1)) + DigitVal(ds[Len(ds)])

\* The value of a TRIGGER property: a native timedelta (its total seconds),
\* as create_event and update_event set it, or a text left as it was read.
TimedeltaValue(seconds) == [native |-> TRUE, seconds |-> seconds, text |-> <<>>]

TextValue(text) == [native |-> FALSE, seconds |-> 0, text |-> text]

\* timedelta(minutes=-minutes)
timedelta_minutes_before(minutes) == TimedeltaValue(-60 * minutes)

\* str() of a timedelta: "[-D day[s], ]H:MM:SS" with days = floor(s / 86400)
str_timedelta(seconds) ==
  LET days == seconds \div 86400
      rest == seconds % 86400
      mag  == IF days < 0 THEN -days ELSE days
  IN (IF days # 0
      THEN (IF days < 0 THEN <<"-">> ELSE <<>>) \o Decimal(mag)
           \o <<" ", "d", "a", "y">> \o (IF mag # 1 THEN <<"s">> ELSE <<>>)
           \o <<",", " ">>
      ELSE <<>>)
     \o Decimal(rest \div 3600) \o <<":">> \o TwoDigits((rest % 3600) \div 60)
     \o <<":">> \o TwoDigits(rest % 60)

\* str(alarm.trigger.value)
str_trigger(v) == IF v.native THEN str_timedelta(v.seconds) ELSE v.text

\* the number of leading decimal digits of s
RECURSIVE DigitRun(_)
DigitRun(s) == IF s # <<>> /\ s[1] \in Digits THEN 1 + DigitRun(Tail(s)) ELSE 0

\* re.match(r'-PT(\d+)([HM])', trigger): a match at the start of the text;
\* what follows the unit is not looked at.  [matched, amount, unit]
match_trigger(trigger) ==
  LET rest == IF Len(trigger) >= 3 THEN SubSeq(trigger, 4, Len(trigger)) ELSE <<>>
      n == DigitRun(rest)
      matched == /\ Len(trigger) >= 3
                 /\ trigger[1] = "-" /\ trigger[2] = "P" /\ trigger[3] = "T"
                 /\ n >= 1 /\ Len(rest) > n /\ rest[n + 1] \in {"H", "M"}
  IN [matched |-> matched,
      amount |-> IF matched THEN IntOfDigits(SubSeq(rest, 1, n)) ELSE 0,
      unit |-> IF matched THEN rest[n + 1] ELSE ""]

\* the minutes one trigger text contributes to `alarms`: <<>> or <<minutes>>
trigger_minutes(trigger) ==
  LET m == match_trigger(trigger)
  IN IF ~m.matched THEN <<>>
     ELSE IF m.unit = "H" THEN <<m.amount * 60>> ELSE <<m.amount>>

\* a VALARM block; a block without a TRIGGER has trigger = Nil
Alarm(description, trigger) ==
  [action |-> "DISPLAY", description |-> description, trigger |-> trigger]

\* the loop over the VALARM children of from_caldav_event
RECURSIVE decode_alarms(_)
decode_alarms(valarms) ==
  IF valarms = <<>> THEN <<>>
  ELSE (IF valarms[1].trigger # Nil
        THEN trigger_minutes(str_trigger(valarms[1].trigger[1])) ELSE <<>>)
       \o decode_alarms(Tail(valarms))

----------------------------------------------------------------------------
(* Records: a CalendarObjectResource and the VEVENT of its data *)

\* DTSTART / DTEND: the value and the VALUE parameter (Nil when not set)
DateProp(value, value_param) == [value |-> value, value_param |-> value_param]

\* The contents of a VEVENT.  A property that is not there is Nil; valarm,
\* attendee and other are the lists of those children, in document order;
\* other holds the sub-structures this program does not know.
VEvent(summary, dtstart, dtend, location, description, url, valarm, rrule, other) ==
  [summary |-> summary, dtstart |-> dtstart, dtend |-> dtend,
   location |-> location, description |-> description, url |-> url,
   valarm |-> valarm, rrule |-> rrule, organizer |-> Nil, attendee |-> <<>>,
   last_modified |-> Nil, other |-> other]

\* A record of the store: its native identifier and location reference
\* (None when it has none) and its data (Nil: no VEVENT in it)
Object(id, url, data) == [id |-> id, url |-> url, data |-> data]

\* the CN of every ATTENDEE that has one
RECURSIVE decode_attendees(_)
decode_attendees(as) ==
  IF as = <<>> THEN <<>> ELSE as[1] \o decode_attendees(Tail(as))

\* Event.from_caldav_event, for a record whose parent collection is named
\* parent_name: [ok, event]; not ok is an exception
from_caldav_event(caldav_event, parent_name) ==
  LET has_vevent == caldav_event.data # Nil
      vevent == caldav_event.data[1]
      alarms == decode_alarms(vevent.valarm)
      recurrence == IF vevent.rrule # Nil THEN from_ical_string(vevent.rrule[1])
                    ELSE [ok |-> TRUE, rule |-> Rule(0, 1, Nil, Nil, Nil)]
      attendees == decode_attendees(vevent.attendee)
  IN IF ~has_vevent \/ ~recurrence.ok
     THEN [ok |-> FALSE, event |-> Nil]
     ELSE [ok |-> TRUE, event |-> Some(
       [title |-> IF vevent.summary # Nil THEN vevent.summary[1] ELSE "No Title",
        start_time |-> IF vevent.dtstart # Nil THEN Some(vevent.dtstart[1].value) ELSE Nil,
        end_time |-> IF vevent.dtend # Nil THEN Some(vevent.dtend[1].value) ELSE Nil,
        calendar_name |-> parent_name,
        location |-> vevent.location,
        notes |-> vevent.description,
        url |-> vevent.url,
        all_day |-> /\ vevent.dtstart # Nil
                    /\ vevent.dtstart[1].value_param = Some("DATE"),
        alarms_minutes_offsets |-> IF alarms # <<>> THEN Some(alarms) ELSE Nil,
        recurrence_rule |-> IF vevent.rrule # Nil THEN Some(recurrence.rule) ELSE Nil,
        organizer |-> vevent.organizer,
        attendees |-> IF attendees # <<>> THEN Some(attendees) ELSE Nil,
        last_modified |-> vevent.last_modified,
        identifier |-> IF Truthy(caldav_event.id) THEN caldav_event.id
                       ELSE IF Truthy(caldav_event.url) THEN caldav_event.url
                       ELSE <<"hash">>])]

----------------------------------------------------------------------------
(* Collections *)

Cals == 1..NCal

\* CalDAVManager._get_all_calendars: the collections in enumeration order,
\* or the empty list when the store fails to enumerate them
get_all_calendars(principal_fails) ==
  IF principal_fails THEN <<>> ELSE [i \in 1..NCal |-> i]

\* CalDAVManager._find_calendar_by_name: the first collection with that
\* display name, 0 for None
find_calendar_by_name(calendar_name, principal_fails) ==
  LET calendars == get_all_calendars(principal_fails)
      hits == {i \in 1..Len(calendars) : calName[calendars[i]] = calendar_name}
  IN IF hits = {} THEN 0
     ELSE calendars[CHOOSE i \in hits : \A j \in hits : i <= j]

----------------------------------------------------------------------------
(* CalDAVManager.list_events *)

\* parse_results with a decode failure ending the loop: the records after
\* an undecodable one are dropped
RECURSIVE parse_results_stop(_, _)
parse_results_stop(results, parent_name) ==
  IF results = <<>> THEN <<>>
  ELSE LET parsed == from_caldav_event(results[1], parent_name)
       IN IF parsed.ok
          THEN parsed.event \o parse_results_stop(Tail(results), parent_name)
          ELSE <<>>

\* the inner loop: the records of one search result decoded in order, a
\* record that fails to decode skipped
RECURSIVE parse_results(_, _)
parse_results(results, parent_name) ==
  IF results = <<>> THEN <<>>
  ELSE LET parsed == from_caldav_event(results[1], parent_name)
       IN (IF parsed.ok THEN parsed.event ELSE <<>>)
          \o parse_results(Tail(results), parent_name)

\* search_calendars with a failing query ending the loop: the collections
\* after a failing one are not searched
RECURSIVE search_calendars_abort(_, _, _)
search_calendars_abort(calendars, contents, failing) ==
  IF calendars = <<>> \/ calendars[1] \in failing THEN <<>>
  ELSE parse_results(contents[calendars[1]], calName[calendars[1]])
       \o search_calendars_abort(Tail(calendars), contents, failing)

\* the outer loop over the targeted collections; failing is the set of
\* collections whose time-range query raises
RECURSIVE search_calendars(_, _, _)
search_calendars(calendars, contents, failing) ==
  IF calendars = <<>> THEN <<>>
  ELSE (IF calendars[1] \in failing THEN <<>>
        ELSE parse_results(contents[calendars[1]], calName[calendars[1]]))
       \o search_calendars(Tail(calendars), contents, failing)

\* list_events without the check of line 53: an unknown name searches all
list_events_unchecked(calendar_name, contents, failing, principal_fails) ==
  LET calendar == IF TruthyName(calendar_name)
                  THEN find_calendar_by_name(calendar_name, principal_fails) ELSE 0
      calendars == IF calendar # 0 THEN <<calendar>>
                   ELSE get_all_calendars(principal_fails)
  IN [outcome |-> "ok",
      events |-> search_calendars(calendars, contents, failing),
      queried |-> calendars]

\* list_events(start_time, end_time, calendar_name) on the store contents:
\* [outcome, events, queried], queried the collections whose query was issued
list_events(calendar_name, contents, failing, principal_fails) ==
  LET calendar == IF TruthyName(calendar_name)
                  THEN find_calendar_by_name(calendar_name, principal_fails) ELSE 0
      calendars == IF calendar # 0 THEN <<calendar>>
                   ELSE get_all_calendars(principal_fails)
  IN IF TruthyName(calendar_name) /\ calendar = 0
     THEN [outcome |-> "not found", events |-> <<>>, queried |-> <<>>]
     ELSE [outcome |-> "ok",
           events |-> search_calendars(calendars, contents, failing),
           queried |-> calendars]

----------------------------------------------------------------------------
(* CalDAVManager.find_event_by_id *)

\* matches without lines 298-310: the location reference is not tried
matches_id_only(event, event_id) ==
  /\ event.id # None
  /\ \/ event.id = event_id
     \/ event.id = unquote(event_id)
     \/ unquote(event.id) = unquote(event_id)

\* matches without percent-decoding: exact equality only
matches_exact(event, event_id) ==
  \/ event.id # None /\ event.id = event_id
  \/ Truthy(event.url) /\ event.url = event_id

\* the match of one record against event_id (lines 284-310)
matches(event, event_id) ==
  LET decoded_event_id == unquote(event_id)
  IN \/ /\ event.id # None
        /\ \/ event.id = event_id
           \/ event.id = decoded_event_id
           \/ unquote(event.id) = decoded_event_id
     \/ /\ Truthy(event.url)
        /\ \/ event.url = event_id
           \/ event.url = decoded_event_id
           \/ unquote(event.url) = decoded_event_id

\* the position of the last matching record of a list, 0 when none: the
\* inner loop of lines 281-310 without its early return
last_match(events, event_id) ==
  LET hits == {i \in 1..Len(events) : matches(events[i], event_id)}
  IN IF hits = {} THEN 0 ELSE CHOOSE i \in hits : \A j \in hits : i >= j

\* the position of the first matching record of a list, 0 when none
first_match(events, event_id) ==
  LET hits == {i \in 1..Len(events) : matches(events[i], event_id)}
  IN IF hits = {} THEN 0 ELSE CHOOSE i \in hits : \A j \in hits : i <= j

\* find_in_calendars with a failing enumeration ending the search
RECURSIVE find_in_calendars_stop(_, _, _, _)
find_in_calendars_stop(calendars, contents, event_id, failing) ==
  IF calendars = <<>> \/ calendars[1] \in failing
  THEN [outcome |-> "ok", cal |-> 0, pos |-> 0]
  ELSE LET pos == first_match(contents[calendars[1]], event_id)
       IN IF pos # 0 THEN [outcome |-> "ok", cal |-> calendars[1], pos |-> pos]
          ELSE find_in_calendars_stop(Tail(calendars), contents, event_id, failing)

\* the loop over the collections; failing is the set of collections whose
\* enumeration raises.  [outcome, cal, pos]: cal = 0 is None
RECURSIVE find_in_calendars(_, _, _, _)
find_in_calendars(calendars, contents, event_id, failing) ==
  IF calendars = <<>> THEN [outcome |-> "ok", cal |-> 0, pos |-> 0]
  ELSE LET c == calendars[1]
           pos == IF c \in failing THEN 0 ELSE first_match(contents[c], event_id)
       IN IF pos # 0 THEN [outcome |-> "ok", cal |-> c, pos |-> pos]
          ELSE find_in_calendars(Tail(calendars), contents, event_id, failing)

find_event_by_id(event_id, contents, failing, principal_fails) ==
  find_in_calendars(get_all_calendars(principal_fails), contents, event_id, failing)

\* CalDAVManager._find_event_calendar: the collection of the first match,
\* 0 for None
find_event_calendar(event_id, contents, failing, principal_fails) ==
  find_in_calendars(get_all_calendars(principal_fails), contents, event_id, failing).cal

----------------------------------------------------------------------------
(* The store: save and delete of a record *)

\* the location reference the store gives a record saved under id in c
url_of(c, id) == <<"/">> \o Decimal(c) \o <<"/">> \o id

\* the position in a list of the first record with that identifier, 0 if none
position_of(events, id) ==
  LET hits == {i \in 1..Len(events) : events[i].id = id}
  IN IF hits = {} THEN 0 ELSE CHOOSE i \in hits : \A j \in hits : i <= j

\* calendar.save_event(vcal): [contents, pos], the contents afterwards and
\* the position of the saved record in collection c.  A record whose
\* identifier the collection already holds is overwritten in place; any
\* other is added, under a new identifier uid when it brings none.
save_event(contents, c, id, data, uid) ==
  LET key == IF id = None THEN uid ELSE id
      at == position_of(contents[c], key)
      saved == Object(key, url_of(c, key), data)
  IN IF at # 0
     THEN [contents |-> [contents EXCEPT ![c][at] = saved], pos |-> at]
     ELSE [contents |-> [contents EXCEPT ![c] = Append(@, saved)],
           pos |-> Len(contents[c]) + 1]

\* existing_event.delete(): the record at position pos of collection c removed
delete_object(contents, c, pos) ==
  [contents EXCEPT ![c] =
     SubSeq(@, 1, pos - 1) \o SubSeq(@, pos + 1, Len(@))]

----------------------------------------------------------------------------
(* CalDAVManager.create_event *)

\* the VALARM blocks added for a list of minute offsets
RECURSIVE new_alarms(_, _)
new_alarms(offsets, description) ==
  IF offsets = <<>> THEN <<>>
  ELSE <<Alarm(description, Some(timedelta_minutes_before(offsets[1])))>>
       \o new_alarms(Tail(offsets), description)

\* Python truthiness of an optional str
TruthyOpt(o) == o # Nil /\ o[1] # ""

\* new_vevent without lines 122-123: the notes are not written
new_vevent_no_notes(new_event) ==
  VEvent(Some(new_event.title),
         Some(DateProp(new_event.start_time,
                       IF new_event.all_day THEN Some("DATE") ELSE Nil)),
         Some(DateProp(new_event.end_time,
                       IF new_event.all_day THEN Some("DATE") ELSE Nil)),
         IF TruthyOpt(new_event.location) THEN new_event.location ELSE Nil,
         Nil,
         IF TruthyOpt(new_event.url) THEN new_event.url ELSE Nil,
         IF new_event.alarms_minutes_offsets # Nil
         THEN new_alarms(new_event.alarms_minutes_offsets[1], new_event.title)
         ELSE <<>>,
         IF new_event.recurrence_rule # Nil
         THEN Some(recurrence_rule_to_ical(new_event.recurrence_rule[1])) ELSE Nil,
         <<>>)

\* the VEVENT built from a CreateEventRequest (lines 114-147)
new_vevent(new_event) ==
  VEvent(Some(new_event.title),
         Some(DateProp(new_event.start_time,
                       IF new_event.all_day THEN Some("DATE") ELSE Nil)),
         Some(DateProp(new_event.end_time,
                       IF new_event.all_day THEN Some("DATE") ELSE Nil)),
         IF TruthyOpt(new_event.location) THEN new_event.location ELSE Nil,
         IF TruthyOpt(new_event.notes) THEN new_event.notes ELSE Nil,
         IF TruthyOpt(new_event.url) THEN new_event.url ELSE Nil,
         IF new_event.alarms_minutes_offsets # Nil
         THEN new_alarms(new_event.alarms_minutes_offsets[1], new_event.title)
         ELSE <<>>,
         IF new_event.recurrence_rule # Nil
         THEN Some(recurrence_rule_to_ical(new_event.recurrence_rule[1])) ELSE Nil,
         <<>>)

\* The store failures injected into one call: pf1, pf2, pf3 say whether the
\* first, second and third enumeration of the collections fails; failing1
\* and failing2 are the collections whose records cannot be enumerated (or
\* queried) during the first and the second scan; save_fails and
\* delete_fails say whether the store's save and delete raise.
Faults(pf1, pf2, pf3, failing1, failing2, save_fails, delete_fails) ==
  [pf1 |-> pf1, pf2 |-> pf2, pf3 |-> pf3, failing1 |-> failing1,
   failing2 |-> failing2, save_fails |-> save_fails, delete_fails |-> delete_fails]

NoFaults == Faults(FALSE, FALSE, FALSE, {}, {}, FALSE, FALSE)

\* create_event with line 111 taking the last collection of the
\* enumeration as the default instead of the first
create_event_last_default(new_event, contents, uid, faults) ==
  LET named == TruthyName(new_event.calendar_name)
      byname == find_calendar_by_name(new_event.calendar_name, faults.pf1)
      calendars == get_all_calendars(faults.pf1)
      calendar == IF named THEN byname
                  ELSE IF calendars = <<>> THEN 0 ELSE calendars[Len(calendars)]
      saved == save_event(contents, calendar, None, Some(new_vevent(new_event)), uid)
      parsed == from_caldav_event(saved.contents[calendar][saved.pos], calName[calendar])
      failed(why) == [outcome |-> why, contents |-> contents, cal |-> 0, pos |-> 0,
                      event |-> Nil]
  IN IF named /\ byname = 0 THEN failed("not found")
     ELSE IF calendar = 0 THEN failed("no calendars")
     ELSE IF faults.save_fails THEN failed("store error")
     ELSE IF ~parsed.ok
          THEN [outcome |-> "decode error", contents |-> saved.contents,
                cal |-> calendar, pos |-> saved.pos, event |-> Nil]
     ELSE [outcome |-> "ok", contents |-> saved.contents, cal |-> calendar,
           pos |-> saved.pos, event |-> parsed.event]

\* create_event(new_event): [outcome, contents, cal, pos, event].  uid is the
\* identifier the store assigns; faults are the store failures of this call
create_event(new_event, contents, uid, faults) ==
  LET named == TruthyName(new_event.calendar_name)
      byname == find_calendar_by_name(new_event.calendar_name, faults.pf1)
      calendars == get_all_calendars(faults.pf1)
      calendar == IF named THEN byname
                  ELSE IF calendars = <<>> THEN 0 ELSE calendars[1]
      saved == save_event(contents, calendar, None, Some(new_vevent(new_event)), uid)
      parsed == from_caldav_event(saved.contents[calendar][saved.pos], calName[calendar])
      failed(why) == [outcome |-> why, contents |-> contents, cal |-> 0, pos |-> 0,
                      event |-> Nil]
  IN IF named /\ byname = 0 THEN failed("not found")
     ELSE IF calendar = 0 THEN failed("no calendars")
     ELSE IF faults.save_fails THEN failed("store error")
     ELSE IF ~parsed.ok
          THEN [outcome |-> "decode error", contents |-> saved.contents,
                cal |-> calendar, pos |-> saved.pos, event |-> Nil]
     ELSE [outcome |-> "ok", contents |-> saved.contents, cal |-> calendar,
           pos |-> saved.pos, event |-> parsed.event]

----------------------------------------------------------------------------
(* CalDAVManager.update_event *)

\* An UpdateEventRequest: every field is optional, Nil (NoName for
\* calendar_name) when the request does not set it
EmptyUpdate ==
  [title |-> Nil, start_time |-> Nil, end_time |-> Nil, calendar_name |-> NoName,
   location |-> Nil, notes |-> Nil, alarms_minutes_offsets |-> Nil, url |-> Nil,
   all_day |-> Nil, recurrence_rule |-> Nil]

\* whether lines 187-219 raise AttributeError: an assignment through a
\* property the VEVENT does not have
patch_raises(vevent, request) ==
  \/ request.title # Nil /\ vevent.summary = Nil
  \/ request.start_time # Nil /\ vevent.dtstart = Nil
  \/ request.end_time # Nil /\ vevent.dtend = Nil
  \/ request.location # Nil /\ vevent.location = Nil
  \/ request.notes # Nil /\ vevent.description = Nil
  \/ request.url # Nil /\ vevent.url = Nil
  \/ request.all_day # Nil /\ (vevent.dtstart = Nil \/ vevent.dtend = Nil)
  \/ /\ request.alarms_minutes_offsets # Nil
     /\ request.alarms_minutes_offsets[1] # <<>>
     /\ vevent.summary = Nil

\* patch_date with all_day=False not handled: only True rewrites the marker
patch_date_true_only(prop, value, all_day) ==
  LET p == prop[1]
      v == IF value # Nil THEN value[1] ELSE p.value
      param == IF all_day # Nil /\ all_day[1] THEN Some("DATE") ELSE p.value_param
  IN IF prop = Nil THEN Nil ELSE Some(DateProp(v, param))

\* DTSTART / DTEND after lines 189-205
patch_date(prop, value, all_day) ==
  LET p == prop[1]
      v == IF value # Nil THEN value[1] ELSE p.value
      param == IF all_day = Nil THEN p.value_param
               ELSE IF all_day[1] THEN Some("DATE") ELSE Some("DATETIME")
  IN IF prop = Nil THEN Nil ELSE Some(DateProp(v, param))

\* patch with the location written without the test of line 193: a request
\* that leaves the location unset clears it
patch_location_always(vevent, request) ==
  LET summary == IF request.title # Nil THEN request.title ELSE vevent.summary
  IN [vevent EXCEPT
        !.summary = summary,
        !.dtstart = patch_date(vevent.dtstart, request.start_time, request.all_day),
        !.dtend = patch_date(vevent.dtend, request.end_time, request.all_day),
        !.location = request.location,
        !.description = IF request.notes # Nil THEN request.notes ELSE @,
        !.url = IF request.url # Nil THEN request.url ELSE @,
        !.valarm = IF request.alarms_minutes_offsets # Nil
                   THEN new_alarms(request.alarms_minutes_offsets[1],
                                   IF summary # Nil THEN summary[1] ELSE "")
                   ELSE @,
        !.rrule = IF request.recurrence_rule # Nil
                  THEN Some(recurrence_rule_to_ical(request.recurrence_rule[1]))
                  ELSE @]

\* patch without lines 209-212: the new alarms are added after those the
\* record has
patch_alarms_appended(vevent, request) ==
  LET summary == IF request.title # Nil THEN request.title ELSE vevent.summary
  IN [vevent EXCEPT
        !.summary = summary,
        !.dtstart = patch_date(vevent.dtstart, request.start_time, request.all_day),
        !.dtend = patch_date(vevent.dtend, request.end_time, request.all_day),
        !.location = IF request.location # Nil THEN request.location ELSE @,
        !.description = IF request.notes # Nil THEN request.notes ELSE @,
        !.url = IF request.url # Nil THEN request.url ELSE @,
        !.valarm = IF request.alarms_minutes_offsets # Nil
                   THEN @ \o new_alarms(request.alarms_minutes_offsets[1],
                                        IF summary # Nil THEN summary[1] ELSE "")
                   ELSE @,
        !.rrule = IF request.recurrence_rule # Nil
                  THEN Some(recurrence_rule_to_ical(request.recurrence_rule[1]))
                  ELSE @]

\* the VEVENT after the in-place updates of lines 187-228
patch(vevent, request) ==
  LET summary == IF request.title # Nil THEN request.title ELSE vevent.summary
  IN [vevent EXCEPT
        !.summary = summary,
        !.dtstart = patch_date(vevent.dtstart, request.start_time, request.all_day),
        !.dtend = patch_date(vevent.dtend, request.end_time, request.all_day),
        !.location = IF request.location # Nil THEN request.location ELSE @,
        !.description = IF request.notes # Nil THEN request.notes ELSE @,
        !.url = IF request.url # Nil THEN request.url ELSE @,
        !.valarm = IF request.alarms_minutes_offsets # Nil
                   THEN new_alarms(request.alarms_minutes_offsets[1],
                                   IF summary # Nil THEN summary[1] ELSE "")
                   ELSE @,
        !.rrule = IF request.recurrence_rule # Nil
                  THEN Some(recurrence_rule_to_ical(request.recurrence_rule[1]))
                  ELSE @]

\* update_event ends with an exception: [outcome, contents, cal, pos, event]
update_raises(why, after) ==
  [outcome |-> why, contents |-> after, cal |-> 0, pos |-> 0, event |-> Nil]

\* lines 243-244, after the save: the log line reads vevent.summary.value
\* when the request has no title, then the saved record is decoded
update_saved(saved, calendar, vevent, request) ==
  IF ~TruthyOpt(request.title) /\ vevent.summary = Nil
  THEN [outcome |-> "attribute error", contents |-> saved.contents,
        cal |-> calendar, pos |-> saved.pos, event |-> Nil]
  ELSE IF ~from_caldav_event(saved.contents[calendar][saved.pos], calName[calendar]).ok
  THEN [outcome |-> "decode error", contents |-> saved.contents,
        cal |-> calendar, pos |-> saved.pos, event |-> Nil]
  ELSE [outcome |-> "ok", contents |-> saved.contents, cal |-> calendar,
        pos |-> saved.pos,
        event |-> from_caldav_event(saved.contents[calendar][saved.pos],
                                    calName[calendar]).event]

\* lines 240-248 with the exception of the save swallowed: the call goes
\* on as if the record had been saved
update_save_swallow(contents, calendar, id, vevent, request, uid, faults) ==
  update_saved(save_event(contents, calendar, id, Some(vevent), uid),
               calendar, vevent, request)

\* lines 240-248: the save into calendar of the patched record
update_save(contents, calendar, id, vevent, request, uid, faults) ==
  IF faults.save_fails THEN update_raises("store error", contents)
  ELSE update_saved(save_event(contents, calendar, id, Some(vevent), uid),
                    calendar, vevent, request)

\* lines 230-238 without the delete of line 236: the record is saved into
\* the new collection and stays in the old one
update_move_copy(found, owner, vevent, request, contents, uid, faults) ==
  IF TruthyName(request.calendar_name) /\ request.calendar_name # calName[owner]
  THEN IF find_calendar_by_name(request.calendar_name, faults.pf3) = 0
       THEN update_raises("not found", contents)
       ELSE update_save(contents,
                        find_calendar_by_name(request.calendar_name, faults.pf3),
                        contents[found.cal][found.pos].id, vevent, request, uid, faults)
  ELSE update_save(contents, owner, contents[found.cal][found.pos].id, vevent,
                   request, uid, faults)

\* lines 230-238 with the delete of line 236 ahead of the lookup of line
\* 232: the record is gone when the named collection is not found
update_move_delete_first(found, owner, vevent, request, contents, uid, faults) ==
  IF TruthyName(request.calendar_name) /\ request.calendar_name # calName[owner]
  THEN IF faults.delete_fails THEN update_raises("store error", contents)
       ELSE IF find_calendar_by_name(request.calendar_name, faults.pf3) = 0
       THEN update_raises("not found", delete_object(contents, found.cal, found.pos))
       ELSE update_save(delete_object(contents, found.cal, found.pos),
                        find_calendar_by_name(request.calendar_name, faults.pf3),
                        contents[found.cal][found.pos].id, vevent, request, uid, faults)
  ELSE update_save(contents, owner, contents[found.cal][found.pos].id, vevent,
                   request, uid, faults)

\* lines 230-238: the calendar change; the record is deleted from its
\* collection before it is saved into the new one
update_move(found, owner, vevent, request, contents, uid, faults) ==
  IF TruthyName(request.calendar_name) /\ request.calendar_name # calName[owner]
  THEN IF find_calendar_by_name(request.calendar_name, faults.pf3) = 0
       THEN update_raises("not found", contents)
       ELSE IF faults.delete_fails THEN update_raises("store error", contents)
       ELSE update_save(delete_object(contents, found.cal, found.pos),
                        find_calendar_by_name(request.calendar_name, faults.pf3),
                        contents[found.cal][found.pos].id, vevent, request, uid, faults)
  ELSE update_save(contents, owner, contents[found.cal][found.pos].id, vevent,
                   request, uid, faults)

\* lines 162-228, once the record and its collection have been looked up
update_found(found, owner, request, contents, uid, faults) ==
  IF found.cal = 0 THEN update_raises("not found", contents)
  ELSE IF owner = 0 THEN update_raises("no calendar for event", contents)
  ELSE IF contents[found.cal][found.pos].data = Nil
  THEN update_raises("no vevent", contents)
  ELSE IF patch_raises(contents[found.cal][found.pos].data[1], request)
  THEN update_raises("attribute error", contents)
  ELSE update_move(found, owner, patch(contents[found.cal][found.pos].data[1], request),
                   request, contents, uid, faults)

\* update_event(event_id, request): [outcome, contents, cal, pos, event]
update_event(event_id, request, contents, uid, faults) ==
  update_found(find_event_by_id(event_id, contents, faults.failing1, faults.pf1),
               find_event_calendar(event_id, contents, faults.failing2, faults.pf2),
               request, contents, uid, faults)

----------------------------------------------------------------------------
(* CalDAVManager.delete_event *)

\* delete_event without line 257: true is returned, nothing is deleted
delete_event_no_delete(event_id, contents, faults) ==
  LET found == find_event_by_id(event_id, contents, faults.failing1, faults.pf1)
  IN IF found.cal = 0 THEN [outcome |-> "not found", contents |-> contents]
     ELSE [outcome |-> "ok", contents |-> contents]

\* delete_event(event_id): [outcome, contents]
delete_event(event_id, contents, faults) ==
  LET found == find_event_by_id(event_id, contents, faults.failing1, faults.pf1)
  IN IF found.cal = 0 THEN [outcome |-> "not found", contents |-> contents]
     ELSE IF faults.delete_fails THEN [outcome |-> "store error", contents |-> contents]
     ELSE [outcome |-> "ok", contents |-> delete_object(contents, found.cal, found.pos)]

----------------------------------------------------------------------------
(* CalendarManager.find_event_by_id (ical.py): the record found, decoded *)

\* [found, ok, event]: not found is None, not ok is the decoder's exception
manager_find_event_by_id(identifier, contents, faults) ==
  LET hit == find_event_by_id(identifier, contents, faults.failing1, faults.pf1)
      parsed == from_caldav_event(contents[hit.cal][hit.pos], calName[hit.cal])
  IN IF hit.cal = 0 THEN [found |-> FALSE, ok |-> TRUE, event |-> Nil]
     ELSE [found |-> TRUE, ok |-> parsed.ok, event |-> parsed.event]

----------------------------------------------------------------------------
(* The search specification: a store that other clients fill, searched by  *)
(* list_events and find_event_by_id under injected store failures.         *)

\* the display names of the collections: the first is Home, the second is
\* Work, and every other is Home again, so that one name is unique and one
\* is shared
CalNamings ==
  { [c \in Cals |-> IF c = 2 THEN "Work" ELSE "Home"] }

\* the collection filters tried: none, the empty name, names
Filters == {NoName, "", "Home", "Gone"}

\* a VEVENT with a title, a start and an end and nothing else
SimpleVEvent(title) ==
  VEvent(Some(title), Some(DateProp("s1", Nil)), Some(DateProp("e1", Nil)),
         Nil, Nil, Nil, <<>>, Nil, <<>>)

\* a rule text whose INTERVAL is no numeral: decoding it raises
BadRuleText == <<Part("FREQ", Words(<<"DAILY">>)), Part("INTERVAL", Words(<<"x">>))>>

\* the records other clients put into the store
SeedObjects ==
  { Object(<<"A", " ", "B">>, None, Some(SimpleVEvent("one"))),
    Object(<<"A", "%", "2", "0", "B">>, None, Some(SimpleVEvent("two"))),
    Object(None, <<"A", "%", "2", "0", "B">>, Nil),
    Object(<<"C">>, <<"A", " ", "B">>,
           Some([SimpleVEvent("four") EXCEPT !.rrule = Some(BadRuleText)])) }

\* the identifiers looked up
IdInputs ==
  { <<"A", " ", "B">>, <<"A", "%", "2", "0", "B">>,
    <<"A", "%", "2", "5", "2", "0", "B">>, <<"D">> }

\* the store failures of a search: the enumeration of the collections
\* fails, or the query of each collection of a set does (of none, one or
\* two collections, or of all)
SearchFaults ==
  {[principal_fails |-> TRUE, failing |-> {}]}
  \cup {[principal_fails |-> FALSE, failing |-> F] :
          F \in {G \in SUBSET Cals : Cardinality(G) <= 2 \/ G = Cals}}

RECURSIVE CountUpTo(_, _)
CountUpTo(contents, c) ==
  IF c = 0 THEN 0 ELSE Len(contents[c]) + CountUpTo(contents, c - 1)

\* the number of records of the store
Total(contents) == CountUpTo(contents, NCal)

NoHistory == [origin |-> "none", all_day |-> FALSE, updates |-> 0]

Init ==
  /\ calName \in CalNamings
  /\ store = [c \in Cals |-> <<>>]
  /\ last = [op |-> "none"]
  /\ hist = NoHistory

\* no call is in progress: calls are synchronous, one at a time
Idle == last.op = "none"

\* the caller has read the outcome of its call
Return ==
  /\ ~Idle
  /\ last' = [op |-> "none"]
  /\ UNCHANGED <<calName, store, hist>>

\* another client adds a record to a collection
StoreAdds(c, o) ==
  /\ Idle
  /\ Total(store) < MaxEvents
  /\ store' = [store EXCEPT ![c] = Append(@, o)]
  /\ last' = [op |-> "none"]
  /\ UNCHANGED <<calName, hist>>

ListEvents(calendar_name, failing, principal_fails) ==
  /\ Idle
  /\ last' = [op |-> "list_events", calendar_name |-> calendar_name,
              failing |-> failing, principal_fails |-> principal_fails,
              result |-> list_events(calendar_name, store, failing, principal_fails)]
  /\ UNCHANGED <<calName, store, hist>>

FindEventById(event_id, failing, principal_fails) ==
  /\ Idle
  /\ last' = [op |-> "find_event_by_id", event_id |-> event_id,
              failing |-> failing, principal_fails |-> principal_fails,
              result |-> find_event_by_id(event_id, store, failing, principal_fails)]
  /\ UNCHANGED <<calName, store, hist>>

Next ==
  \/ Return
  \/ \E c \in Cals, o \in SeedObjects : StoreAdds(c, o)
  \/ \E f \in Filters, x \in SearchFaults : ListEvents(f, x.failing, x.principal_fails)
  \/ \E i \in IdInputs, x \in SearchFaults :
        FindEventById(i, x.failing, x.principal_fails)

Spec == Init /\ [][Next]_vars

----------------------------------------------------------------------------
(* Claims about list_events *)

\* the outcome of decoding the record at position i of collection c
Decoded(c, i) == from_caldav_event(store[c][i], calName[c])

\* the collections a filter designates: all of them when no filter is
\* given (None or the empty name, line 52), else the first with that name
Targeted(calendar_name) ==
  IF TruthyName(calendar_name)
  THEN {c \in Cals : calName[c] = calendar_name
                     /\ \A d \in 1..(c - 1) : calName[d] # calendar_name}
  ELSE Cals

\* the decodable records of collection c, decoded, in the store's order
EventsOf(c) ==
  LET kept == SelectSeq(store[c], LAMBDA o : from_caldav_event(o, calName[c]).ok)
  IN [i \in 1..Len(kept) |-> from_caldav_event(kept[i], calName[c]).event[1]]

\* EventsOf of the collections of T among 1..n, in enumeration order
RECURSIVE ConcatUpTo(_, _)
ConcatUpTo(T, n) ==
  IF n = 0 THEN <<>>
  ELSE ConcatUpTo(T, n - 1) \o (IF n \in T THEN EventsOf(n) ELSE <<>>)

IsList == last.op = "list_events"

\* C1: when the time-range query of a targeted collection raises,
\* list_events still returns normally, and its result holds every decodable
\* record of every other targeted collection, wherever the failing
\* collection stands in the enumeration.
C1_FailingCollectionTolerated ==
  (/\ IsList
   /\ ~last.principal_fails
   /\ Targeted(last.calendar_name) \cap last.failing # {})
  => /\ last.result.outcome = "ok"
     /\ \A c \in Targeted(last.calendar_name) \ last.failing :
          \A i \in 1..Len(store[c]) :
            Decoded(c, i).ok =>
              \E j \in 1..Len(last.result.events) :
                last.result.events[j] = Decoded(c, i).event[1]

\* the second of three collections fails; the first and the third hold
\* decodable records, which are returned
C1_Witness ==
  /\ IsList
  /\ last.calendar_name = NoName
  /\ ~last.principal_fails
  /\ last.failing = {2}
  /\ store[1] # <<>> /\ Decoded(1, 1).ok
  /\ store[3] # <<>> /\ Decoded(3, 1).ok
  /\ last.result.outcome = "ok"
  /\ Len(last.result.events) >= 2

\* C2: the list returned equals the concatenation, in enumeration order, of
\* each successfully queried collection's records in the store's order with
\* exactly the undecodable records removed; nothing is reordered.
C2_ResultIsOrderedConcatenation ==
  (IsList /\ ~last.principal_fails /\ last.result.outcome = "ok")
  => last.result.events
       = ConcatUpTo(Targeted(last.calendar_name) \ last.failing, NCal)

\* a collection holds a decodable, an undecodable and a decodable record,
\* and the two decodable ones are returned
C2_Witness ==
  /\ IsList
  /\ ~last.principal_fails
  /\ last.failing = {}
  /\ last.calendar_name = NoName
  /\ \E c \in Cals :
       /\ Len(store[c]) = 3
       /\ Decoded(c, 1).ok /\ ~Decoded(c, 2).ok /\ Decoded(c, 3).ok
       /\ Decoded(c, 1).event # Decoded(c, 3).event
  /\ Len(last.result.events) = 2

\* C3: with a collection filter, list_events targets exactly one collection,
\* whose display name is the filter, and returns only records of it; when no
\* collection has that name it fails with a not-found error and queries
\* none; with no filter (None, or the empty name that line 52 treats alike)
\* it targets all collections.
C3_FilterTargetsOneCollection ==
  (IsList /\ ~last.principal_fails)
  => LET f == last.calendar_name
         r == last.result
     IN IF ~TruthyName(f)
        THEN r.outcome = "ok" /\ r.queried = [c \in 1..NCal |-> c]
        ELSE IF \E c \in Cals : calName[c] = f
        THEN /\ r.outcome = "ok"
             /\ Len(r.queried) = 1
             /\ calName[r.queried[1]] = f
             /\ \A j \in 1..Len(r.events) :
                  \E i \in 1..Len(store[r.queried[1]]) :
                    /\ Decoded(r.queried[1], i).ok
                    /\ r.events[j] = Decoded(r.queried[1], i).event[1]
        ELSE r.outcome = "not found" /\ r.queried = <<>> /\ r.events = <<>>

\* a filter naming one of two collections: records of it are returned while
\* a third collection holds records too
C3_Witness ==
  /\ IsList
  /\ last.calendar_name = "Home"
  /\ ~last.principal_fails
  /\ last.result.outcome = "ok"
  /\ Len(last.result.events) >= 1
  /\ store[2] # <<>> /\ Decoded(2, 1).ok

----------------------------------------------------------------------------
(* Claims about find_event_by_id *)

IsFind == last.op = "find_event_by_id"

\* the collections whose records can be enumerated during the last call
Enumerable == IF last.principal_fails THEN {} ELSE Cals \ last.failing

\* the places <<c, i>> of the enumerable records that match event_id
Matching(event_id) ==
  {p \in Enumerable \X (1..MaxEvents) :
     p[2] <= Len(store[p[1]]) /\ matches(store[p[1]][p[2]], event_id)}

\* place p comes before place q in search order
Before(p, q) == p[1] < q[1] \/ (p[1] = q[1] /\ p[2] < q[2])

\* C4: find_event_by_id never raises because of a collection: a collection
\* whose enumeration raises is skipped and the others are still searched, so
\* a match in a later collection is returned; with no match in any
\* enumerable collection the result is None.
C4_FindSkipsFailingCollections ==
  IsFind
  => LET r == last.result
         M == Matching(last.event_id)
     IN /\ r.outcome = "ok"
        /\ IF M = {} THEN r.cal = 0
           ELSE /\ <<r.cal, r.pos>> \in M
                /\ \A q \in M : ~Before(q, <<r.cal, r.pos>>)

\* the first collection cannot be enumerated though it holds a match, and
\* the match of a later collection is returned
C4_Witness ==
  /\ IsFind
  /\ ~last.principal_fails
  /\ 1 \in last.failing
  /\ store[1] # <<>> /\ matches(store[1][1], last.event_id)
  /\ last.result.outcome = "ok"
  /\ last.result.cal > 1

\* C5: a record of an enumerable collection whose native identifier n and
\* the input i have the same percent-decoding makes find_event_by_id(i)
\* return a record, and that record when no earlier record matches.
C5_PercentEncodingInsensitive ==
  IsFind
  => \A p \in Enumerable \X (1..MaxEvents) :
       (/\ p[2] <= Len(store[p[1]])
        /\ store[p[1]][p[2]].id # None
        /\ unquote(store[p[1]][p[2]].id) = unquote(last.event_id))
       => /\ last.result.cal # 0
          /\ (\A q \in Matching(last.event_id) : ~Before(q, p))
             => <<last.result.cal, last.result.pos>> = p

\* the record "A%20B" is returned for the input "A B", which it equals only
\* after percent-decoding
C5_Witness ==
  /\ IsFind
  /\ last.event_id = <<"A", " ", "B">>
  /\ last.result.cal # 0
  /\ store[last.result.cal][last.result.pos].id = <<"A", "%", "2", "0", "B">>

----------------------------------------------------------------------------
(* The recurrence-codec specification: a rule is written by                *)
(* _recurrence_rule_to_ical and the text read back by from_ical_string.    *)

\* the datetimes an end_date is drawn from
DateTimes ==
  {DateTime(at, micro, tz) : at \in Instants, micro \in BOOLEAN, tz \in TzInfos}

\* the lists of weekdays, the empty one included
DaysLists == UNION {[1..n -> 1..7] : n \in 0..MaxDays}

\* the occurrence counts: int, so zero and a negative number are accepted
Counts == (-1)..MaxInterval

\* the optional end dates, occurrence counts and weekday lists of a rule
EndDates == {Nil} \cup {Some(t) : t \in DateTimes}

OccurrenceCounts == {Nil} \cup {Some(n) : n \in Counts}

DaysOfWeek == {Nil} \cup {Some(l) : l \in DaysLists}

\* the rule is any RecurrenceRule that the model's validation admits
InitRule ==
  /\ calName \in CalNamings
  /\ store = [c \in Cals |-> <<>>]
  /\ hist = NoHistory
  /\ \E f \in 0..3, i \in 1..MaxInterval, e \in EndDates :
       \E c \in OccurrenceCounts, d \in DaysOfWeek :
         /\ validate_end_conditions(Rule(f, i, e, c, d))
         /\ last = [op |-> "rule", rule |-> Rule(f, i, e, c, d)]

EncodeRule ==
  /\ last.op = "rule"
  /\ last' = [op |-> "rule_encoded", rule |-> last.rule,
              text |-> recurrence_rule_to_ical(last.rule)]
  /\ UNCHANGED <<calName, store, hist>>

DecodeRule ==
  /\ last.op = "rule_encoded"
  /\ last' = [op |-> "rule_decoded", rule |-> last.rule, text |-> last.text,
              back |-> from_ical_string(last.text)]
  /\ UNCHANGED <<calName, store, hist>>

NextRule == EncodeRule \/ DecodeRule

SpecRule == InitRule /\ [][NextRule]_vars

ExactlyOneEnd(r) == (r.end_date = Nil) # (r.occurrence_count = Nil)

\* C6: for every RecurrenceRule with exactly one of end_date and
\* occurrence_count set, whatever its frequency, its interval >= 1 and its
\* days_of_week (absent and empty included), from_ical_string of the text
\* of _recurrence_rule_to_ical is a rule equal to it in every field.
C6_RecurrenceRoundTrip ==
  (last.op = "rule_decoded" /\ ExactlyOneEnd(last.rule))
  => last.back.ok /\ last.back.rule = last.rule

----------------------------------------------------------------------------
(* The trigger specification: the text of one TRIGGER value is decoded as  *)
(* lines 196-205 of from_caldav_event decode it.                           *)

TriggerAlphabet == {"-", "P", "T", "1", "0", "H", "M", "S"}

\* triggers that other producers write, some longer than the length bound
KnownTriggers ==
  { <<"-", "P", "T", "1", "5", "M">>,
    <<"-", "P", "T", "1", "2", "0", "M">>,
    <<"-", "P", "T", "1", "H", "3", "0", "M">>,
    <<"-", "P", "T", "1", "M", "3", "0", "S">>,
    <<"+", "P", "T", "1", "H">>,
    <<"-", "P", "1", "D">>,
    <<"-", "P", "1", "D", "T", "1", "H">> }

\* the text is any text over the alphabet up to the length bound, or one
\* of the known triggers
InitTrigger ==
  /\ calName \in CalNamings
  /\ store = [c \in Cals |-> <<>>]
  /\ hist = NoHistory
  /\ \/ \E n \in 0..MaxTriggerLen : \E t \in [1..n -> TriggerAlphabet] :
          last = [op |-> "trigger", text |-> t]
     \/ \E t \in KnownTriggers : last = [op |-> "trigger", text |-> t]

\* a VALARM whose TRIGGER reads as the text is decoded
DecodeTrigger ==
  /\ last.op = "trigger"
  /\ last' = [op |-> "trigger_decoded", text |-> last.text,
              alarms |-> decode_alarms(<<Alarm("", Some(TextValue(last.text)))>>)]
  /\ UNCHANGED <<calName, store, hist>>

NextTrigger == DecodeTrigger

SpecTrigger == InitTrigger /\ [][NextTrigger]_vars

\* text is "-PT", then one run of decimal digits, then the one unit marker
\* u, and nothing else
SingleUnit(text, u) ==
  /\ Len(text) >= 5
  /\ SubSeq(text, 1, 3) = <<"-", "P", "T">>
  /\ text[Len(text)] = u
  /\ \A k \in 4..(Len(text) - 1) : text[k] \in Digits

Magnitude(text) == IntOfDigits(SubSeq(text, 4, Len(text) - 1))

\* C8: the trigger decoding recognises only a negative trigger made of one
\* integer magnitude followed by one unit marker H or M and nothing else:
\* an hour trigger yields magnitude * 60, a minute trigger the magnitude,
\* and any other trigger (both units mixed as in "-PT1H30M", a positive
\* direction) yields no value.
C8_SingleUnitTriggersOnly ==
  last.op = "trigger_decoded"
  => last.alarms =
       IF SingleUnit(last.text, "H") THEN <<Magnitude(last.text) * 60>>
       ELSE IF SingleUnit(last.text, "M") THEN <<Magnitude(last.text)>>
       ELSE <<>>

----------------------------------------------------------------------------
(* The edit specification: one record, made by create_event or put in the  *)
(* store by another producer, is followed through a bounded number of      *)
(* update_event calls and read back through CalendarManager.               *)

\* a weekly rule with a count and days, and a daily rule with an end date
RuleA == Rule(1, 2, Nil, Some(3), Some(<<2, 4>>))

RuleB == Rule(0, 1, Some(DateTime("d1", FALSE, "naive")), Nil, Nil)

\* the alarm offsets of the requests that create
AlarmLists == {<<0>>, <<120, 240>>, <<2880, 5760>>}

\* the CreateEventRequests tried: with or without location, notes and url,
\* alarms, a recurrence rule; all-day or not; and some that name a
\* collection or give empty texts
CreateRequests ==
  {[title |-> "t1", start_time |-> "s1", end_time |-> "e1",
    calendar_name |-> NoName,
    location |-> IF detailed THEN Some("l1") ELSE Nil,
    notes |-> IF detailed THEN Some("n1") ELSE Nil,
    url |-> IF detailed THEN Some("u1") ELSE Nil,
    alarms_minutes_offsets |-> alarms, all_day |-> all_day,
    recurrence_rule |-> rule] :
     detailed \in BOOLEAN, all_day \in BOOLEAN,
     alarms \in {Nil} \cup {Some(l) : l \in AlarmLists},
     rule \in {Nil, Some(RuleA)}}
  \cup
  {[title |-> "t1", start_time |-> "s1", end_time |-> "e1",
    calendar_name |-> p[1], location |-> p[2], notes |-> p[3], url |-> Nil,
    alarms_minutes_offsets |-> Nil, all_day |-> FALSE, recurrence_rule |-> Nil] :
     p \in {<<"Work", Some("l1"), Some("n1")>>, <<"Work", Nil, Some("")>>,
            <<"", Some("l1"), Nil>>, <<"", Some(""), Some("n1")>>,
            <<NoName, Some(""), Some("")>>}}

\* the UpdateEventRequests tried: each field alone, and some fields together
UpdateRequests ==
  { EmptyUpdate,
    [EmptyUpdate EXCEPT !.title = Some("t2")],
    [EmptyUpdate EXCEPT !.start_time = Some("s2")],
    [EmptyUpdate EXCEPT !.end_time = Some("e2")],
    [EmptyUpdate EXCEPT !.location = Some("l2")],
    [EmptyUpdate EXCEPT !.notes = Some("n2")],
    [EmptyUpdate EXCEPT !.url = Some("u2")],
    [EmptyUpdate EXCEPT !.all_day = Some(TRUE)],
    [EmptyUpdate EXCEPT !.all_day = Some(FALSE)],
    [EmptyUpdate EXCEPT !.alarms_minutes_offsets = Some(<<>>)],
    [EmptyUpdate EXCEPT !.alarms_minutes_offsets = Some(<<30>>)],
    [EmptyUpdate EXCEPT !.recurrence_rule = Some(RuleB)],
    [EmptyUpdate EXCEPT !.calendar_name = "Work"],
    [EmptyUpdate EXCEPT !.calendar_name = "Gone"],
    [EmptyUpdate EXCEPT !.title = Some("t2"),
                        !.alarms_minutes_offsets = Some(<<30>>)],
    [EmptyUpdate EXCEPT !.all_day = Some(TRUE), !.start_time = Some("s2")],
    [EmptyUpdate EXCEPT !.all_day = Some(FALSE), !.title = Some("t2")],
    [EmptyUpdate EXCEPT !.calendar_name = "Work", !.notes = Some("n2")] }

\* the identifier the store gives the record that create_event saves
NewUid == <<"u", "1">>

UnknownId == <<"n", "o">>

\* records of other producers: one with every property, a text trigger, a
\* rule with an extension part and a vendor sub-structure; one with a
\* vendor sub-structure and no DTEND, LOCATION, DESCRIPTION or URL
ForeignObjects ==
  { Object(<<"f", "1">>, None,
           Some(VEvent(Some("t1"), Some(DateProp("s1", Nil)),
                       Some(DateProp("e1", Nil)), Some("l1"), Some("n1"),
                       Some("u1"),
                       <<Alarm("x", Some(TextValue(<<"-", "P", "T", "1", "5", "M">>)))>>,
                       Some(<<Part("FREQ", Words(<<"WEEKLY">>)),
                              Part("X-EXT", Words(<<"1">>)),
                              Part("BYDAY", Words(<<"MO">>))>>),
                       <<"X-VENDOR">>))),
    Object(<<"f", "2">>, None,
           Some(VEvent(Some("t1"), Some(DateProp("s1", Some("DATE"))), Nil,
                       Nil, Nil, Nil, <<>>, Nil, <<"X-VENDOR">>))) }

\* the identifiers of the records the store holds
IdsIn(contents) ==
  {contents[c][i].id : <<c, i>> \in {p \in Cals \X (1..MaxEvents) : p[2] <= Len(contents[p[1]])}}

InitEdit == Init

CreateEvent(new_event) ==
  /\ Idle
  /\ Total(store) = 0
  /\ hist.origin = "none"
  /\ LET r == create_event(new_event, store, NewUid, NoFaults)
     IN /\ store' = r.contents
        /\ last' = [op |-> "create_event", request |-> new_event, result |-> r]
        /\ hist' = IF r.pos # 0
                   THEN [origin |-> "system", all_day |-> new_event.all_day,
                         updates |-> 0]
                   ELSE hist
  /\ UNCHANGED calName

\* another producer puts a record into a collection
ForeignAdds(c, o) ==
  /\ Idle
  /\ Total(store) = 0
  /\ hist.origin = "none"
  /\ store' = [store EXCEPT ![c] = Append(@, o)]
  /\ hist' = [hist EXCEPT !.origin = "foreign"]
  /\ UNCHANGED <<calName, last>>

\* explicit_none holds the names of the fields the caller passed as None
\* in so many words (pydantic's model_fields_set keeps them; the request
\* object reads the same as one that leaves them out)
UpdateEvent(event_id, request, explicit_none) ==
  /\ Idle
  /\ hist.updates < MaxUpdates
  /\ LET r == update_event(event_id, request, store, NewUid, NoFaults)
     IN /\ store' = r.contents
        /\ last' = [op |-> "update_event", event_id |-> event_id,
                    request |-> request, explicit_none |-> explicit_none,
                    before |-> store, result |-> r]
        /\ hist' = [hist EXCEPT
                      !.updates = @ + 1,
                      !.all_day = IF r.pos # 0 /\ request.all_day # Nil
                                  THEN request.all_day[1] ELSE @]
  /\ UNCHANGED calName

Retrieve(identifier) ==
  /\ Idle
  /\ last' = [op |-> "retrieve", identifier |-> identifier,
              result |-> manager_find_event_by_id(identifier, store, NoFaults)]
  /\ UNCHANGED <<calName, store, hist>>

NextEdit ==
  \/ Return
  \/ \E q \in CreateRequests : CreateEvent(q)
  \/ \E c \in Cals, o \in ForeignObjects : ForeignAdds(c, o)
  \/ \E i \in IdsIn(store), q \in UpdateRequests : UpdateEvent(i, q, {})
  \/ \E i \in IdsIn(store) : UpdateEvent(i, EmptyUpdate, {"recurrence_rule"})
  \/ UpdateEvent(UnknownId, [EmptyUpdate EXCEPT !.title = Some("t2")], {})
  \/ \E i \in IdsIn(store) \cup {UnknownId} : Retrieve(i)

SpecEdit == InitEdit /\ [][NextEdit]_vars

----------------------------------------------------------------------------
(* Claims about create_event and update_event *)

IsCreate == last.op = "create_event"

IsUpdate == last.op = "update_event"

IsRetrieve == last.op = "retrieve"

\* the VEVENT the last create_event or update_event saved
SavedVEvent == store[last.result.cal][last.result.pos].data[1]

\* the VEVENT that the last update_event found, as it was before the call
VEventBefore ==
  LET found == find_event_by_id(last.event_id, last.before, {}, FALSE)
  IN last.before[found.cal][found.pos].data[1]

\* the elements of a list
Range(l) == {l[k] : k \in 1..Len(l)}

\* C7: every minute offset m >= 0 that create_event or update_event writes
\* is decoded from the resulting alarm block by Event.from_caldav_event as
\* exactly m, so the event returned for a request with offsets such as
\* [2880, 5760] or [120, 240] has alarms_minutes_offsets containing each
\* offset requested.
C7_AlarmRoundTrip ==
  (/\ IsCreate \/ IsUpdate
   /\ last.result.outcome = "ok"
   /\ last.request.alarms_minutes_offsets # Nil)
  => /\ decode_alarms(SavedVEvent.valarm) = last.request.alarms_minutes_offsets[1]
     /\ \A m \in Range(last.request.alarms_minutes_offsets[1]) :
          /\ last.result.event[1].alarms_minutes_offsets # Nil
          /\ m \in Range(last.result.event[1].alarms_minutes_offsets[1])

\* the value and the VALUE parameter of an optional DTSTART / DTEND
DateValue(prop) == IF prop = Nil THEN Nil ELSE Some(prop[1].value)

DateParam(prop) == IF prop = Nil THEN Nil ELSE prop[1].value_param

\* C9: update_event changes only what the request mentions: whenever it
\* saves a record, every field the request leaves unset (title, start, end,
\* location, notes, url, all-day marker, alarm blocks, recurrence rule) and
\* every sub-structure the program does not know has the value in the saved
\* record that it had before the update.
C9_UpdateTouchesOnlyMentionedFields ==
  (IsUpdate /\ last.result.pos # 0)
  => LET q == last.request
         b == VEventBefore
         a == SavedVEvent
     IN /\ q.title = Nil => a.summary = b.summary
        /\ q.start_time = Nil => DateValue(a.dtstart) = DateValue(b.dtstart)
        /\ q.end_time = Nil => DateValue(a.dtend) = DateValue(b.dtend)
        /\ q.location = Nil => a.location = b.location
        /\ q.notes = Nil => a.description = b.description
        /\ q.url = Nil => a.url = b.url
        /\ q.all_day = Nil => /\ DateParam(a.dtstart) = DateParam(b.dtstart)
                              /\ DateParam(a.dtend) = DateParam(b.dtend)
        /\ q.alarms_minutes_offsets = Nil => a.valarm = b.valarm
        /\ q.recurrence_rule = Nil => a.rrule = b.rrule
        /\ a.other = b.other
        /\ a.organizer = b.organizer
        /\ a.attendee = b.attendee
        /\ a.last_modified = b.last_modified

\* a title-only update of a recurring record that has a location, notes,
\* an alarm and a vendor sub-structure: only the title differs afterwards
C9_Witness ==
  /\ IsUpdate
  /\ last.result.outcome = "ok"
  /\ last.request = [EmptyUpdate EXCEPT !.title = Some("t2")]
  /\ VEventBefore.summary = Some("t1")
  /\ VEventBefore.location # Nil /\ VEventBefore.description # Nil
  /\ VEventBefore.rrule # Nil /\ VEventBefore.valarm # <<>>
  /\ VEventBefore.other # <<>>
  /\ SavedVEvent = [VEventBefore EXCEPT !.summary = Some("t2")]
  /\ last.result.event[1].recurrence_rule # Nil

\* C10: a record that create_event made keeps, through every update_event,
\* the same precision marker on DTSTART and DTEND, and decodes with all_day
\* true exactly when the last operation that specified all_day specified
\* true; read back by CalendarManager.find_event_by_id it has that all_day.
C10_AllDayMarkerConsistent ==
  hist.origin = "system"
  => /\ \A c \in Cals : \A i \in 1..Len(store[c]) :
          /\ store[c][i].data[1].dtstart[1].value_param
               = store[c][i].data[1].dtend[1].value_param
          /\ Decoded(c, i).ok
          /\ Decoded(c, i).event[1].all_day = hist.all_day
     /\ (IsRetrieve /\ last.result.found)
        => last.result.ok /\ last.result.event[1].all_day = hist.all_day

\* a record made by create_event has been updated twice, its title changed
\* and all_day last specified false; both markers say DATETIME and the
\* record is read back timed
C10_Witness ==
  /\ hist.origin = "system"
  /\ hist.updates = 2
  /\ ~hist.all_day
  /\ IsRetrieve
  /\ last.result.found
  /\ ~last.result.event[1].all_day
  /\ \E c \in Cals : /\ store[c] # <<>>
                     /\ store[c][1].data[1].dtstart[1].value_param = Some("DATETIME")
                     /\ store[c][1].data[1].dtend[1].value_param = Some("DATETIME")
                     /\ store[c][1].data[1].summary = Some("t2")

----------------------------------------------------------------------------
(* The decoding specification: a RecurrenceRule is constructed from field  *)
(* values, and a rule text of any parts is decoded, alone by               *)
(* from_ical_string and inside a record by from_caldav_event.              *)

\* the parts a rule text is made of: known keys with usual, unusual and
\* malformed values, an unknown key, a part without '='
RuleParts ==
  { Part("FREQ", Words(<<"WEEKLY">>)),
    Part("FREQ", Words(<<"HOURLY">>)),
    Part("INTERVAL", Num(2)),
    Part("INTERVAL", Num(0)),
    Part("INTERVAL", Words(<<"x">>)),
    Part("UNTIL", Stamp([form |-> "TZ", at |-> "d1"])),
    Part("UNTIL", Stamp([form |-> "junk", at |-> "d1"])),
    Part("COUNT", Num(3)),
    Part("COUNT", Words(<<"x">>)),
    Part("BYDAY", Words(<<"MO", "XX", "FR">>)),
    Part("BYDAY", Words(<<"XX">>)),
    Part("FOO", Words(<<"BAR">>)),
    Bare("JUNK") }

\* what a record around the rule text looks like: every property there;
\* no SUMMARY, DTSTART or DTEND and alarms that cannot be read; no VEVENT
RecordShapes == {"full", "bare", "no vevent"}

\* the record of a shape with a rule text
ShapedRecord(shape, text) ==
  CASE shape = "full" ->
         Object(<<"r", "1">>, None,
                Some([SimpleVEvent("t1") EXCEPT !.rrule = Some(text)]))
    [] shape = "bare" ->
         Object(<<"r", "1">>, None,
                Some(VEvent(Nil, Nil, Nil, Nil, Nil, Nil,
                            <<Alarm("x", Some(TextValue(<<"P", "T", "1", "H">>))),
                              Alarm("x", Nil)>>,
                            Some(text), <<>>)))
    [] OTHER -> Object(<<"r", "1">>, None, Nil)

InitDecode ==
  /\ calName \in CalNamings
  /\ store = [c \in Cals |-> <<>>]
  /\ hist = NoHistory
  /\ \/ \E n \in 0..MaxParts : \E t \in [1..n -> RuleParts] :
          \E shape \in RecordShapes :
            last = [op |-> "input", text |-> t, shape |-> shape]
     \/ \E f \in 0..3, i \in 0..MaxInterval, e \in EndDates :
          \E c \in OccurrenceCounts, d \in {Nil, Some(<<2>>)} :
            last = [op |-> "fields", rule |-> Rule(f, i, e, c, d)]

ConstructRule ==
  /\ last.op = "fields"
  /\ last' = [op |-> "constructed", fields |-> last.rule,
              result |-> RecurrenceRule(last.rule.frequency, last.rule.interval,
                                        last.rule.end_date,
                                        last.rule.occurrence_count,
                                        last.rule.days_of_week)]
  /\ UNCHANGED <<calName, store, hist>>

DecodeText ==
  /\ last.op = "input"
  /\ last' = [op |-> "text_decoded", text |-> last.text, shape |-> last.shape,
              back |-> from_ical_string(last.text)]
  /\ UNCHANGED <<calName, store, hist>>

DecodeRecord ==
  /\ last.op = "input"
  /\ last' = [op |-> "record_decoded", text |-> last.text, shape |-> last.shape,
              record |-> ShapedRecord(last.shape, last.text),
              result |-> from_caldav_event(ShapedRecord(last.shape, last.text),
                                           "Home")]
  /\ UNCHANGED <<calName, store, hist>>

NextDecode == ConstructRule \/ DecodeText \/ DecodeRecord

SpecDecode == InitDecode /\ [][NextDecode]_vars

BothEnds(r) == r.end_date # Nil /\ r.occurrence_count # Nil

\* C11: every RecurrenceRule value, constructed from field values or
\* produced by from_ical_string from any rule text (alone or inside a
\* record), has at most one of end_date and occurrence_count set, and
\* constructing one with both set fails, the store untouched.
C11_AtMostOneEndCondition ==
  /\ last.op = "constructed"
     => /\ last.result.ok => ~BothEnds(last.result.rule)
        /\ BothEnds(last.fields) => ~last.result.ok
        /\ store = [c \in Cals |-> <<>>]
  /\ (last.op = "text_decoded" /\ last.back.ok) => ~BothEnds(last.back.rule)
  /\ (/\ last.op = "record_decoded"
      /\ last.result.ok
      /\ last.result.event[1].recurrence_rule # Nil)
     => ~BothEnds(last.result.event[1].recurrence_rule[1])

\* construction with an end date and a count is rejected
C11_Witness ==
  /\ last.op = "constructed"
  /\ last.fields.end_date # Nil
  /\ last.fields.occurrence_count = Some(2)
  /\ last.fields.interval = 1
  /\ ~last.result.ok

\* C12: Event.from_caldav_event fails only when the record has no VEVENT:
\* a record that has one decodes whatever optional fields are missing or
\* malformed, a rule text with malformed INTERVAL or COUNT values included.
C12_DecodeFailsOnlyWithoutVEvent ==
  last.op = "record_decoded"
  => (last.result.ok <=> last.record.data # Nil)

\* the outcome of a decoding: the rule, or the failure
Outcome(r) == IF r.ok THEN r ELSE [ok |-> FALSE]

\* the list l with x put in after position k
InsertAt(l, k, x) == SubSeq(l, 1, k) \o <<x>> \o SubSeq(l, k + 1, Len(l))

\* parts that from_ical_string does not know: other keys (a lowercase freq
\* is another key) and a part without '='
UnknownParts ==
  { Part("FOO", Words(<<"BAR">>)), Part("X-EXT", Num(1)),
    Part("freq", Words(<<"WEEKLY">>)), Bare("JUNK") }

UnknownDayTokens == {"XX", "mo", "1MO", ""}

\* C13: recurrence decoding ignores what it does not recognise: putting a
\* part with an unknown key anywhere into a rule text, or an unknown token
\* anywhere into its BYDAY list, leaves the decoded rule (or the failure)
\* as it is and never makes the decoding fail; a text without FREQ decodes
\* with frequency Daily.
C13_UnknownTokensIgnored ==
  last.op = "text_decoded"
  => /\ \A u \in UnknownParts : \A k \in 0..Len(last.text) :
          Outcome(from_ical_string(InsertAt(last.text, k, u))) = Outcome(last.back)
     /\ \A j \in 1..Len(last.text) :
          (last.text[j].eq /\ last.text[j].key = "BYDAY")
          => \A w \in UnknownDayTokens : \A k \in 0..Len(last.text[j].val.words) :
               Outcome(from_ical_string(
                 [last.text EXCEPT ![j].val.words = InsertAt(@, k, w)]))
               = Outcome(last.back)
     /\ (/\ last.back.ok
         /\ \A j \in 1..Len(last.text) :
              ~(last.text[j].eq /\ last.text[j].key = "FREQ"))
        => last.back.rule.frequency = 0

\* "FOO=BAR;FREQ=WEEKLY;BYDAY=MO,XX,FR" decodes to a weekly rule on Monday
\* and Friday
C13_Witness ==
  /\ last.op = "text_decoded"
  /\ last.text = <<Part("FOO", Words(<<"BAR">>)), Part("FREQ", Words(<<"WEEKLY">>)),
                   Part("BYDAY", Words(<<"MO", "XX", "FR">>))>>
  /\ last.back.ok
  /\ last.back.rule = Rule(1, 1, Nil, Nil, Some(<<2, 6>>))

----------------------------------------------------------------------------
(* Create then find *)

\* what CalendarManager.find_event_by_id returns for the identifier of the
\* event that the last create_event returned, the store as create left it
FoundAfterCreate ==
  manager_find_event_by_id(last.result.event[1].identifier, store, NoFaults)

\* C14: after create_event(request) returns an event e, find_event_by_id of
\* e.identifier returns an event whose title, start_time, end_time, notes,
\* location and calendar_name equal those of the request.
C14_CreateThenFind ==
  (IsCreate /\ last.result.outcome = "ok")
  => /\ FoundAfterCreate.found /\ FoundAfterCreate.ok
     /\ FoundAfterCreate.event[1].title = last.request.title
     /\ FoundAfterCreate.event[1].start_time = Some(last.request.start_time)
     /\ FoundAfterCreate.event[1].end_time = Some(last.request.end_time)
     /\ FoundAfterCreate.event[1].notes = last.request.notes
     /\ FoundAfterCreate.event[1].location = last.request.location
     /\ FoundAfterCreate.event[1].calendar_name = last.request.calendar_name

\* C14 as the code has it: the event found has the title, start_time and
\* end_time of the request; its notes and location are those of the request
\* when they are non-empty texts and None when the request gives None or the
\* empty text; its calendar_name is that of the request when the request
\* names a collection, and the name of the first collection when the
\* request gives None or the empty name.
C14_CreateThenFindAmended ==
  (IsCreate /\ last.result.outcome = "ok")
  => /\ FoundAfterCreate.found /\ FoundAfterCreate.ok
     /\ FoundAfterCreate.event[1].title = last.request.title
     /\ FoundAfterCreate.event[1].start_time = Some(last.request.start_time)
     /\ FoundAfterCreate.event[1].end_time = Some(last.request.end_time)
     /\ FoundAfterCreate.event[1].notes
          = IF TruthyOpt(last.request.notes) THEN last.request.notes ELSE Nil
     /\ FoundAfterCreate.event[1].location
          = IF TruthyOpt(last.request.location) THEN last.request.location ELSE Nil
     /\ FoundAfterCreate.event[1].calendar_name
          = IF TruthyName(last.request.calendar_name)
            THEN last.request.calendar_name ELSE calName[1]

\* an event with notes and a location, created in the collection Work, is
\* found with them
C14_Witness ==
  /\ IsCreate
  /\ last.result.outcome = "ok"
  /\ last.request.calendar_name = "Work"
  /\ last.request.notes = Some("n1")
  /\ FoundAfterCreate.found
  /\ FoundAfterCreate.event[1].notes = Some("n1")
  /\ FoundAfterCreate.event[1].location = Some("l1")
  /\ FoundAfterCreate.event[1].calendar_name = "Work"
  /\ store[2] # <<>>

----------------------------------------------------------------------------
(* The life-cycle specification: events are created, updated, moved        *)
(* between collections and deleted, under injected store failures.         *)

\* the identifier the store assigns to the n-th record it is given
fresh_uid(n) == <<"u">> \o Decimal(n)

\* a CreateEventRequest with a title and times only, for a collection name
LifeRequest(calendar_name) ==
  [title |-> "t1", start_time |-> "s1", end_time |-> "e1",
   calendar_name |-> calendar_name, location |-> Nil, notes |-> Nil, url |-> Nil,
   alarms_minutes_offsets |-> Nil, all_day |-> FALSE, recurrence_rule |-> Nil]

\* the collection names a request gives: none, empty, the name of the
\* first collection, the name of the second, a name no collection has
LifeNames == {NoName, "", "Home", "Work", "Gone"}

\* the UpdateEventRequests tried: nothing set, or a calendar_name
LifeUpdates ==
  {EmptyUpdate}
  \cup {[EmptyUpdate EXCEPT !.calendar_name = n] : n \in {"Home", "Work", "Gone"}}

\* the store failures of one create_event: none, the enumeration of the
\* collections, the save
CreateFaults ==
  {NoFaults,
   Faults(TRUE, FALSE, FALSE, {}, {}, FALSE, FALSE),
   Faults(FALSE, FALSE, FALSE, {}, {}, TRUE, FALSE)}

\* the store failures of one update_event: none, or one of the three
\* enumerations of the collections, the records of the first collection
\* during one of the two scans, the save, the delete
UpdateFaults ==
  {NoFaults,
   Faults(TRUE, FALSE, FALSE, {}, {}, FALSE, FALSE),
   Faults(FALSE, TRUE, FALSE, {}, {}, FALSE, FALSE),
   Faults(FALSE, FALSE, TRUE, {}, {}, FALSE, FALSE),
   Faults(FALSE, FALSE, FALSE, {1}, {}, FALSE, FALSE),
   Faults(FALSE, FALSE, FALSE, {}, {1}, FALSE, FALSE),
   Faults(FALSE, FALSE, FALSE, {}, {}, TRUE, FALSE),
   Faults(FALSE, FALSE, FALSE, {}, {}, FALSE, TRUE)}

\* the store failures of one delete_event: none, the enumeration of the
\* collections, the records of the first collection, the delete
DeleteFaults ==
  {NoFaults,
   Faults(TRUE, FALSE, FALSE, {}, {}, FALSE, FALSE),
   Faults(FALSE, FALSE, FALSE, {1}, {}, FALSE, FALSE),
   Faults(FALSE, FALSE, FALSE, {}, {}, FALSE, TRUE)}

\* a record of another producer
ForeignRecord == Object(<<"f", "1">>, None, Some(SimpleVEvent("t1")))

\* The store starts empty or with a record of another producer in its last
\* collection.  hist.made counts the identifiers the store has assigned; hist.live holds
\* the <<identifier, calendar_name>> of the latest Event returned for each
\* identifier that delete_event has not deleted since
InitLife ==
  /\ calName \in CalNamings
  /\ \/ store = [c \in Cals |-> <<>>]
     \/ store = [c \in Cals |-> IF c = NCal THEN <<ForeignRecord>> ELSE <<>>]
  /\ last = [op |-> "none"]
  /\ hist = [made |-> 0, live |-> {}]

\* the pairs of hist.live after an Event has been returned
Returned(live, event) ==
  {p \in live : p[1] # event.identifier}
    \cup {<<event.identifier, event.calendar_name>>}

LifeCreate(calendar_name, faults) ==
  /\ Idle
  /\ hist.made < MaxMade
  /\ LET r == create_event(LifeRequest(calendar_name), store,
                           fresh_uid(hist.made + 1), faults)
     IN /\ store' = r.contents
        /\ last' = [op |-> "create_event", request |-> LifeRequest(calendar_name),
                    faults |-> faults, before |-> store, result |-> r]
        /\ hist' = [made |-> IF r.pos # 0 THEN hist.made + 1 ELSE hist.made,
                    live |-> IF r.outcome = "ok"
                             THEN Returned(hist.live, r.event[1]) ELSE hist.live]
  /\ UNCHANGED calName

LifeUpdate(event_id, request, faults) ==
  /\ Idle
  /\ LET r == update_event(event_id, request, store, fresh_uid(hist.made + 1), faults)
     IN /\ store' = r.contents
        /\ last' = [op |-> "update_event", event_id |-> event_id,
                    request |-> request, faults |-> faults, before |-> store,
                    result |-> r]
        /\ hist' = [hist EXCEPT
                      !.live = IF r.outcome = "ok"
                               THEN Returned(@, r.event[1]) ELSE @]
  /\ UNCHANGED calName

LifeDelete(event_id, faults) ==
  /\ Idle
  /\ LET r == delete_event(event_id, store, faults)
     IN /\ store' = r.contents
        /\ last' = [op |-> "delete_event", event_id |-> event_id,
                    faults |-> faults, before |-> store, result |-> r]
        /\ hist' = [hist EXCEPT
                      !.live = IF r.outcome = "ok"
                               THEN {p \in @ : p[1] # event_id} ELSE @]
  /\ UNCHANGED calName

\* the identifiers a caller may hold: of records in the store, of events
\* returned earlier, and one that was never assigned
LifeIds == IdsIn(store) \cup {fresh_uid(1), UnknownId}

\* the update_event calls tried: every request without a store failure,
\* a change of collection under every failure
LifeUpdateCalls ==
  (LifeUpdates \X {NoFaults})
    \cup ({[EmptyUpdate EXCEPT !.calendar_name = "Work"], EmptyUpdate} \X UpdateFaults)

NextLife ==
  \/ Return
  \/ \E n \in LifeNames, f \in CreateFaults : LifeCreate(n, f)
  \/ \E i \in LifeIds, u \in LifeUpdateCalls : LifeUpdate(i, u[1], u[2])
  \/ \E i \in LifeIds, f \in DeleteFaults : LifeDelete(i, f)

SpecLife == InitLife /\ [][NextLife]_vars

----------------------------------------------------------------------------
(* Claims about the life cycle *)

IsDelete == last.op = "delete_event"

\* the identifiers the store has assigned to events this system created
SystemIds == {fresh_uid(k) : k \in 1..hist.made}

\* where the identifier of the last call resolved before the call, no
\* store failure injected: [outcome, cal, pos], cal = 0 when nowhere
ResolvedBefore == find_event_by_id(last.event_id, last.before, {}, FALSE)

\* C15: after delete_event(id) returns true for an event this system
\* created, find_event_by_id(id) returns None; delete_event on an
\* identifier that resolves to no record raises a not-found error and
\* deletes nothing from the store.
C15_DeleteThenFind ==
  /\ (IsDelete /\ last.result.outcome = "ok" /\ last.event_id \in SystemIds)
     => ~manager_find_event_by_id(last.event_id, store, NoFaults).found
  /\ (IsDelete /\ ResolvedBefore.cal = 0)
     => (last.result.outcome = "not found" /\ store = last.before)

\* an event this system created has been deleted while the store holds
\* another record
C15_Witness ==
  /\ IsDelete
  /\ last.result.outcome = "ok"
  /\ last.event_id \in SystemIds
  /\ ResolvedBefore.cal # 0
  /\ Total(store) >= 1
  /\ Total(store) < Total(last.before)

\* whether the calendar_name of the last request is a name that no
\* collection of the store has
NamesNoCollection ==
  /\ TruthyName(last.request.calendar_name)
  /\ find_calendar_by_name(last.request.calendar_name, FALSE) = 0

ResolvedId == last.before[ResolvedBefore.cal][ResolvedBefore.pos].id

\* the places <<collection, position>> of the store
Places ==
  {p \in Cals \X (1..(MaxEvents + 1)) : p[2] <= Len(store[p[1]])}

\* the records with that identifier in the collections of that name
RecordsOf(identifier, calendar_name) ==
  {p \in Places : /\ store[p[1]][p[2]].id = identifier
                  /\ calName[p[1]] = calendar_name}

\* C18: in every state reached by create_event, update_event and
\* delete_event, for every Event the system has returned and that has not
\* been deleted, identifier and calendar_name resolve to exactly one record
\* of the store, and no collection holds two records with one identifier.
C18_IdentityResolvesToOneRecord ==
  /\ \A e \in hist.live : Cardinality(RecordsOf(e[1], e[2])) = 1
  /\ \A p \in Places, q \in Places :
       (p[1] = q[1] /\ store[p[1]][p[2]].id = store[q[1]][q[2]].id) => p = q

----------------------------------------------------------------------------
(* Store failures *)

\* C19: when the store fails to enumerate its collections, list_events
\* surfaces an error to the caller: it neither reports the named collection
\* as not found nor returns a result as success.
C19_EnumerationFaultSurfaced ==
  (IsList /\ last.principal_fails)
  => last.result.outcome \notin {"not found", "ok"}

\* the store failures of the last call without the failure of the save
\* and of the delete
Cleared == [last.faults EXCEPT !.save_fails = FALSE, !.delete_fails = FALSE]

\* what the last create_event and update_event would have done had the
\* save and the delete not failed
CreateCleared ==
  create_event(last.request, last.before, fresh_uid(hist.made + 1), Cleared)

UpdateCleared ==
  update_event(last.event_id, last.request, last.before,
               fresh_uid(hist.made + 1), Cleared)

\* C20: when the store's save raises during create_event or update_event,
\* or the store's delete raises during delete_event or during a move, the
\* call raises the store's error and returns neither an Event nor true.
C20_PersistenceFailuresPropagate ==
  /\ (last.op = "create_event" /\ last.faults.save_fails /\ CreateCleared.pos # 0)
     => (last.result.outcome = "store error" /\ last.result.event = Nil)
  /\ (last.op = "update_event" /\ last.faults.save_fails /\ UpdateCleared.pos # 0)
     => (last.result.outcome = "store error" /\ last.result.event = Nil)
  /\ (last.op = "delete_event" /\ last.faults.delete_fails
        /\ delete_event(last.event_id, last.before, Cleared).outcome = "ok")
     => last.result.outcome = "store error"
  /\ (last.op = "update_event" /\ last.faults.delete_fails
        /\ UpdateCleared.pos # 0 /\ UpdateCleared.cal # ResolvedBefore.cal)
     => (last.result.outcome = "store error" /\ last.result.event = Nil)

\* the save of an update_event without a change of collection has failed
C20_Witness ==
  /\ last.op = "update_event"
  /\ last.faults.save_fails
  /\ last.request.calendar_name = NoName
  /\ UpdateCleared.outcome = "ok"
  /\ last.result.outcome = "store error"
  /\ store = last.before

----------------------------------------------------------------------------
(* The default collection *)

\* the last call was a create_event whose request names no collection
CreatedUnnamed ==
  /\ last.op = "create_event"
  /\ ~TruthyName(last.request.calendar_name)

\* C21: create_event without a calendar_name saves the new record into the
\* first collection of the store's enumeration order, so that the event
\* returned, and the event retrieved by its identifier, carry that
\* collection's non-empty name; when the enumeration gives no collection
\* the call fails with an error and saves nothing.
C21_DefaultCollectionIsFirst ==
  /\ (CreatedUnnamed /\ last.result.outcome = "ok")
     => /\ last.result.cal = get_all_calendars(FALSE)[1]
        /\ store[last.result.cal][last.result.pos].id = last.result.event[1].identifier
        /\ position_of(last.before[last.result.cal], last.result.event[1].identifier) = 0
        /\ last.result.event[1].calendar_name = calName[get_all_calendars(FALSE)[1]]
        /\ TruthyName(last.result.event[1].calendar_name)
        /\ manager_find_event_by_id(last.result.event[1].identifier, store,
                                    NoFaults).event[1].calendar_name
             = calName[get_all_calendars(FALSE)[1]]
  /\ (CreatedUnnamed /\ get_all_calendars(last.faults.pf1) = <<>>)
     => /\ last.result.outcome = "no calendars"
        /\ last.result.event = Nil
        /\ store = last.before

\* an event has been created without a calendar_name while the second
\* collection held a record and the first held another
C21_Witness ==
  /\ CreatedUnnamed
  /\ last.result.outcome = "ok"
  /\ last.result.cal = 1
  /\ Len(last.before[1]) >= 1
  /\ Len(last.before[2]) >= 1
  /\ Len(store[1]) = Len(last.before[1]) + 1

----------------------------------------------------------------------------
(* The match rules of find_event_by_id *)

\* the four rules: the native identifier equals the input, or does after
\* both are percent-decoded; the location reference equals the input, or
\* does after both are percent-decoded
FourRules(event, input) ==
  \/ event.id # None /\ event.id = input
  \/ event.id # None /\ unquote(event.id) = unquote(input)
  \/ Truthy(event.url) /\ event.url = input
  \/ Truthy(event.url) /\ unquote(event.url) = unquote(input)

\* the two further comparisons of lines 287 and 301: the native identifier,
\* or the location reference, as stored equals the percent-decoded input
DecodedInputRules(event, input) ==
  \/ event.id # None /\ event.id = unquote(input)
  \/ Truthy(event.url) /\ event.url = unquote(input)

\* the enumerable places of the store
EnumerablePlaces ==
  {p \in Enumerable \X (1..MaxEvents) : p[2] <= Len(store[p[1]])}

\* C22: find_event_by_id treats a record as matching exactly when one of
\* the four rules holds: a record satisfying none of them is never
\* returned, and None is returned only if no record of an enumerable
\* collection satisfies any of them.
C22_FourMatchRules ==
  IsFind
  => /\ last.result.cal # 0
        => FourRules(store[last.result.cal][last.result.pos], last.event_id)
     /\ last.result.cal = 0
        => \A p \in EnumerablePlaces : ~FourRules(store[p[1]][p[2]], last.event_id)

\* C22 as the code has it: a record matches exactly when one of the four
\* rules holds or its native identifier or location reference, as stored,
\* equals the percent-decoded input; a record satisfying none of these is
\* never returned, and None is returned only if no record of an enumerable
\* collection satisfies any of them.
C22_SixMatchRules ==
  IsFind
  => /\ last.result.cal # 0
        => \/ FourRules(store[last.result.cal][last.result.pos], last.event_id)
           \/ DecodedInputRules(store[last.result.cal][last.result.pos], last.event_id)
     /\ last.result.cal = 0
        => \A p \in EnumerablePlaces :
             /\ ~FourRules(store[p[1]][p[2]], last.event_id)
             /\ ~DecodedInputRules(store[p[1]][p[2]], last.event_id)

\* a record has been returned that satisfies none of the four rules: its
\* location reference equals the percent-decoded input, and it has no
\* native identifier
C22_Witness ==
  /\ IsFind
  /\ last.result.cal # 0
  /\ store[last.result.cal][last.result.pos].id = None
  /\ ~FourRules(store[last.result.cal][last.result.pos], last.event_id)
  /\ store[last.result.cal][last.result.pos].url = unquote(last.event_id)

\* the enumerable places whose record satisfies one of the comparisons
Satisfying(input) ==
  {p \in EnumerablePlaces :
     \/ FourRules(store[p[1]][p[2]], input)
     \/ DecodedInputRules(store[p[1]][p[2]], input)}

\* C23: when several records match the input, find_event_by_id returns the
\* first of them in search order, collections in enumeration order and
\* records in the order of their collection, whichever rule each record
\* satisfies: an earlier record matching by a lower-priority rule wins
\* over a later record matching exactly.
C23_FirstMatchInSearchOrder ==
  (IsFind /\ Satisfying(last.event_id) # {})
  => /\ <<last.result.cal, last.result.pos>> \in Satisfying(last.event_id)
     /\ \A q \in Satisfying(last.event_id) :
          ~Before(q, <<last.result.cal, last.result.pos>>)

\* the record returned equals the input only after percent-decoding of its
\* location reference, and a later record of the same collection has the
\* input as its native identifier
C23_Witness ==
  /\ IsFind
  /\ last.result.cal # 0
  /\ store[last.result.cal][last.result.pos].id = None
  /\ store[last.result.cal][last.result.pos].url # last.event_id
  /\ unquote(store[last.result.cal][last.result.pos].url) = unquote(last.event_id)
  /\ \E q \in EnumerablePlaces :
       /\ q[1] = last.result.cal
       /\ q[2] > last.result.pos
       /\ store[q[1]][q[2]].id = last.event_id

----------------------------------------------------------------------------
(* Alarms and recurrence on update *)

\* the last call was an update_event that saved a record
UpdateSaved == IsUpdate /\ last.result.pos # 0

\* C24: when the request of an update carries alarms_minutes_offsets, the
\* empty list included, the alarm blocks of the saved record are exactly
\* one display alarm per requested offset, in order, and none of the blocks
\* the record had; when the request carries no alarms the alarm blocks
\* are those the record had.
C24_AlarmsFullyReplaced ==
  UpdateSaved
  => IF last.request.alarms_minutes_offsets # Nil
     THEN /\ Len(SavedVEvent.valarm) = Len(last.request.alarms_minutes_offsets[1])
          /\ \A i \in 1..Len(SavedVEvent.valarm) :
               /\ SavedVEvent.valarm[i].action = "DISPLAY"
               /\ SavedVEvent.valarm[i].trigger
                    = Some(timedelta_minutes_before(
                             last.request.alarms_minutes_offsets[1][i]))
     ELSE SavedVEvent.valarm = VEventBefore.valarm

\* a record that had two alarms has been saved with the one alarm of the
\* request
C24_Witness ==
  /\ UpdateSaved
  /\ last.request.alarms_minutes_offsets = Some(<<30>>)
  /\ Len(VEventBefore.valarm) = 2
  /\ Len(SavedVEvent.valarm) = 1
  /\ SavedVEvent.valarm[1].trigger = Some(timedelta_minutes_before(30))

\* C25: when recurrence_rule is present on the request of an update, any
\* rule the record had is removed and the encoding of the requested rule
\* is added, so that the saved record holds that one rule; a request that
\* explicitly clears the recurrence leaves the saved record without rule.
C25_RecurrenceFullyReplaced ==
  UpdateSaved
  => /\ last.request.recurrence_rule # Nil
        => SavedVEvent.rrule
             = Some(recurrence_rule_to_ical(last.request.recurrence_rule[1]))
     /\ "recurrence_rule" \in last.explicit_none
        => SavedVEvent.rrule = Nil

----------------------------------------------------------------------------
(* UNTIL and COUNT in from_ical_string *)

\* a part of a rule text other than UNTIL=... and COUNT=...
NotEndPart(part) == ~(part.eq /\ part.key \in {"UNTIL", "COUNT"})

\* the last step decoded a rule text that has an UNTIL part
DecodedWithUntil ==
  /\ last.op = "text_decoded"
  /\ "UNTIL" \in DOMAIN parts_of(last.text)

\* whether the UNTIL value the decoder reads is in neither of the two
\* timestamp formats
UntilMalformed ==
  \/ parts_of(last.text)["UNTIL"].stamp = Nil
  \/ parts_of(last.text)["UNTIL"].stamp[1].form \notin {"TZ", "D"}

\* C26: for a text with an UNTIL part the decoded occurrence_count is
\* unset even when the text has a COUNT part; when the UNTIL value is
\* malformed the end_date is unset as well; and neither the UNTIL part nor
\* the COUNT part raises an error: the decoding fails only if it fails for
\* the text without them.
C26_CountOnlyWithoutUntil ==
  DecodedWithUntil
  => /\ last.back.rule.occurrence_count = Nil
     /\ UntilMalformed => last.back.rule.end_date = Nil
     /\ ~UntilMalformed => last.back.rule.end_date # Nil
     /\ last.back.ok = from_ical_string(SelectSeq(last.text, NotEndPart)).ok

\* a text with a malformed UNTIL and a COUNT that is no number has been
\* decoded without error, to a rule with neither end
C26_Witness ==
  /\ DecodedWithUntil
  /\ UntilMalformed
  /\ "COUNT" \in DOMAIN parts_of(last.text)
  /\ parts_of(last.text)["COUNT"].num = Nil
  /\ last.back.ok
  /\ last.back.rule.end_date = Nil
  /\ last.back.rule.occurrence_count = Nil

----------------------------------------------------------------------------
(* Losses and mismatches of update_event *)

\* the last call was an update_event of a stored record whose request
\* names a collection other than, by name, the one that holds the record
ChangeRequested ==
  /\ last.op = "update_event"
  /\ ResolvedBefore.cal # 0
  /\ TruthyName(last.request.calendar_name)
  /\ last.request.calendar_name # calName[ResolvedBefore.cal]

\* C27: whenever update_event with a calendar change terminates, by
\* returning or by raising, the record of the event is in exactly one
\* collection of the store, never in none and never in two.
C27_MoveNeverLossy ==
  ChangeRequested
  => Cardinality({p \in Places : store[p[1]][p[2]].id = ResolvedId}) = 1

----------------------------------------------------------------------------
(* The scan specification: update_event on a store in which another        *)
(* producer keeps records, two of them under one identifier, while a       *)
(* collection may fail to enumerate during one scan of the call.           *)

\* the record another producer keeps under the identifier of ForeignRecord
\* in another collection
ForeignCopy == Object(<<"f", "1">>, None, Some(SimpleVEvent("t2")))

\* a record of another producer under an identifier of its own
OtherRecord == Object(<<"g", "1">>, None, Some(SimpleVEvent("t3")))

\* two records of one collection whose identifiers differ in their
\* percent-encoding only
EncodedPair ==
  <<Object(<<"A", " ", "B">>, None, Some(SimpleVEvent("t1"))),
    Object(<<"A", "%", "2", "0", "B">>, None, Some(SimpleVEvent("t2")))>>

\* the stores the scans start from: ForeignRecord in the last collection,
\* with a record of another identifier, or with ForeignCopy, in the first
\* or the second collection, or with EncodedPair in the first
ScanStores ==
  {[c \in Cals |-> IF c = NCal THEN <<ForeignRecord>>
                   ELSE IF c = k THEN <<o>> ELSE <<>>] :
     k \in {1, 2}, o \in {ForeignCopy, OtherRecord}}
  \cup {[c \in Cals |-> IF c = NCal THEN <<ForeignRecord>>
                        ELSE IF c = 1 THEN EncodedPair ELSE <<>>]}

InitScan ==
  /\ calName \in CalNamings
  /\ store \in ScanStores
  /\ last = [op |-> "none"]
  /\ hist = [made |-> 0, live |-> {}]

NextScan ==
  \/ Return
  \/ \E i \in IdsIn(store) \cup {UnknownId}, u \in LifeUpdateCalls :
       LifeUpdate(i, u[1], u[2])

SpecScan == InitScan /\ [][NextScan]_vars

\* the collection of the record that the first scan of the last
\* update_event returned, and the collection that its second scan returned
ScanOne ==
  find_event_by_id(last.event_id, last.before, last.faults.failing1,
                   last.faults.pf1).cal

ScanTwo ==
  find_event_calendar(last.event_id, last.before, last.faults.failing2,
                      last.faults.pf2)

\* the last call was an update_event whose request names no collection
\* other, by name, than the one its second scan returned
NoChangeRequested ==
  ~(TruthyName(last.request.calendar_name)
    /\ ScanTwo # 0 /\ last.request.calendar_name # calName[ScanTwo])

\* C28: the collection that _find_event_calendar returns is the collection
\* that holds the record find_event_by_id returned for the same identifier,
\* and an update_event without calendar change saves into that collection,
\* also when the identifier matches records of several collections or a
\* collection cannot be enumerated during one of the two scans only.
C28_OwnerIsResolvedCollection ==
  last.op = "update_event"
  => /\ (ScanOne # 0 /\ ScanTwo # 0) => ScanTwo = ScanOne
     /\ (last.result.pos # 0 /\ NoChangeRequested) => last.result.cal = ScanOne

----------------------------------------------------------------------------
(* The move of a record *)

\* the record that the first scan of the last update_event returned
ScanOneRecord ==
  LET found == find_event_by_id(last.event_id, last.before, last.faults.failing1,
                                last.faults.pf1)
  IN last.before[found.cal][found.pos]

\* the last call was an update_event that succeeded and named an existing
\* collection whose name is not that of the collection the record was in
Moved ==
  /\ last.op = "update_event"
  /\ last.result.outcome = "ok"
  /\ TruthyName(last.request.calendar_name)
  /\ find_calendar_by_name(last.request.calendar_name, FALSE) # 0
  /\ ScanOne # 0
  /\ calName[ScanOne] # last.request.calendar_name

\* the record is in T and no longer in the collection it was in, and
\* find_event_by_id returns an event whose calendar_name is T
MovedAndFoundIn(T) ==
  /\ position_of(store[find_calendar_by_name(T, FALSE)], ScanOneRecord.id) # 0
  /\ position_of(store[ScanOne], ScanOneRecord.id) = 0
  /\ manager_find_event_by_id(last.event_id, store, NoFaults).found
  /\ manager_find_event_by_id(last.event_id, store, NoFaults).event[1].calendar_name = T

\* the records of the store before the last call that match its identifier
MatchedBefore ==
  {p \in Cals \X (1..(MaxEvents + 1)) :
     /\ p[2] <= Len(last.before[p[1]])
     /\ matches(last.before[p[1]][p[2]], last.event_id)}

----------------------------------------------------------------------------
(* Setting a field the record does not have *)

\* the scalar fields the last update_event sets although the record, as it
\* was found, has no such property (all_day goes through DTSTART and DTEND)
AbsentFieldsSet ==
  LET q == last.request
      b == VEventBefore
  IN {f \in {"title", "end_time", "location", "notes", "url", "all_day"} :
        \/ f = "title" /\ q.title # Nil /\ b.summary = Nil
        \/ f = "end_time" /\ q.end_time # Nil /\ b.dtend = Nil
        \/ f = "location" /\ q.location # Nil /\ b.location = Nil
        \/ f = "notes" /\ q.notes # Nil /\ b.description = Nil
        \/ f = "url" /\ q.url # Nil /\ b.url = Nil
        \/ f = "all_day" /\ q.all_day # Nil /\ b.dtend = Nil}

\* the last operation is an update_event of a resolvable record, naming no
\* other collection, that sets a scalar field the record lacks
SetsAbsentField ==
  /\ IsUpdate
  /\ ResolvedBefore.cal # 0
  /\ last.before[ResolvedBefore.cal][ResolvedBefore.pos].data # Nil
  /\ last.request.calendar_name = NoName
  /\ AbsentFieldsSet # {}

\* C29: update_event can set a scalar field the existing record does not
\* have: for a resolvable record lacking LOCATION, DESCRIPTION, URL, SUMMARY
\* or DTEND, an update that sets the corresponding field (or all_day)
\* succeeds, and the returned event carries the requested value.
C29_SetsAbsentField ==
  SetsAbsentField
  => /\ last.result.outcome = "ok"
     /\ LET q == last.request
            e == last.result.event[1]
        IN /\ q.title # Nil => e.title = q.title[1]
           /\ q.end_time # Nil => e.end_time = q.end_time
           /\ q.location # Nil => e.location = q.location
           /\ q.notes # Nil => e.notes = q.notes
           /\ q.url # Nil => e.url = q.url
           /\ q.all_day # Nil => e.all_day = q.all_day[1]


----------------------------------------------------------------------------
(* update_event and delete_event in flight together *)

\* The two calls are made on one identifier by two callers; each request to
\* the store is one step.  last.update and last.delete are the frames of
\* the two calls: pc is the position in the code, held the record object
\* the scan returned (its collection and the record as loaded then).

\* number of times the two calls are started together
MaxRaces == 2

RaceRequests ==
  { EmptyUpdate,
    [EmptyUpdate EXCEPT !.title = Some("t2")],
    [EmptyUpdate EXCEPT !.calendar_name = "Work"] }

\* the record the calls are about, as create_event left it in collection c
RaceRecord(c) == Object(NewUid, url_of(c, NewUid), Some(SimpleVEvent("t1")))

InitRace ==
  /\ calName \in CalNamings
  /\ \E c \in Cals : store = [d \in Cals |-> IF d = c THEN <<RaceRecord(c)>> ELSE <<>>]
  /\ last = [op |-> "none"]
  /\ hist = [races |-> 0]

\* the record object a scan returned, Nil for None
held_object(hit, contents) ==
  IF hit.cal = 0 THEN Nil
  ELSE Some([cal |-> hit.cal, object |-> contents[hit.cal][hit.pos]])

\* whether the store still has the record a held object refers to
held_exists(held, contents) ==
  position_of(contents[held.cal], held.object.id) # 0

\* held.delete() on a record the store still has
held_delete(held, contents) ==
  delete_object(contents, held.cal, position_of(contents[held.cal], held.object.id))

\* lines 186-228 on the record object update_event holds
held_patch(frame, request) == patch(frame.held[1].object.data[1], request)

\* both callers make their call
RaceBegins(event_id, request) ==
  /\ Idle
  /\ hist.races < MaxRaces
  /\ last' = [op |-> "race", event_id |-> event_id, request |-> request,
              update |-> [pc |-> "call", held |-> Nil, calendar |-> 0,
                          outcome |-> "none"],
              delete |-> [pc |-> "call", held |-> Nil, outcome |-> "none"]]
  /\ hist' = [hist EXCEPT !.races = @ + 1]
  /\ UNCHANGED <<calName, store>>

InRace == last.op = "race"

\* update_event, lines 161-164: the first scan
UpdateFind ==
  /\ InRace
  /\ last.update.pc = "call"
  /\ LET hit == find_event_by_id(last.event_id, store, {}, FALSE)
     IN last' = [last EXCEPT !.update =
                   IF hit.cal = 0
                   THEN [@ EXCEPT !.pc = "returned", !.outcome = "not found"]
                   ELSE [@ EXCEPT !.pc = "found", !.held = held_object(hit, store)]]
  /\ UNCHANGED <<calName, store, hist>>

\* update_event, lines 166-234: the second scan, the changes to the held
\* record, the lookup of the named collection
UpdateLocate ==
  /\ InRace
  /\ last.update.pc = "found"
  /\ LET owner == find_event_calendar(last.event_id, store, {}, FALSE)
         request == last.request
         named == find_calendar_by_name(request.calendar_name, FALSE)
         raises(why) == [last.update EXCEPT !.pc = "returned", !.outcome = why]
     IN last' = [last EXCEPT !.update =
                   IF owner = 0 THEN raises("no calendar for event")
                   ELSE IF patch_raises(@.held[1].object.data[1], request)
                   THEN raises("attribute error")
                   ELSE IF /\ TruthyName(request.calendar_name)
                           /\ request.calendar_name # calName[owner]
                   THEN IF named = 0 THEN raises("not found")
                        ELSE [@ EXCEPT !.pc = "moving", !.calendar = named]
                   ELSE [@ EXCEPT !.pc = "saving", !.calendar = owner]]
  /\ UNCHANGED <<calName, store, hist>>

\* update_event, line 236: existing_event.delete().  The delete of a
\* record that is no longer there is answered 404 by the store, which the
\* client library may pass over or raise
UpdateDeleteOld(gone_raises) ==
  /\ InRace
  /\ last.update.pc = "moving"
  /\ LET held == last.update.held[1]
     IN IF held_exists(held, store)
        THEN /\ store' = held_delete(held, store)
             /\ last' = [last EXCEPT !.update.pc = "saving"]
        ELSE /\ store' = store
             /\ last' = [last EXCEPT !.update =
                           IF gone_raises
                           THEN [@ EXCEPT !.pc = "returned", !.outcome = "store error"]
                           ELSE [@ EXCEPT !.pc = "saving"]]
  /\ UNCHANGED <<calName, hist>>

\* update_event, lines 240-248: the save and the return
UpdateSave ==
  /\ InRace
  /\ last.update.pc = "saving"
  /\ LET r == update_save(store, last.update.calendar,
                          last.update.held[1].object.id,
                          held_patch(last.update, last.request), last.request,
                          NewUid, NoFaults)
     IN /\ store' = r.contents
        /\ last' = [last EXCEPT !.update.pc = "returned",
                                !.update.outcome = r.outcome]
  /\ UNCHANGED <<calName, hist>>

\* delete_event, lines 252-254: the scan
DeleteFind ==
  /\ InRace
  /\ last.delete.pc = "call"
  /\ LET hit == find_event_by_id(last.event_id, store, {}, FALSE)
     IN last' = [last EXCEPT !.delete =
                   IF hit.cal = 0
                   THEN [@ EXCEPT !.pc = "returned", !.outcome = "not found"]
                   ELSE [@ EXCEPT !.pc = "found", !.held = held_object(hit, store)]]
  /\ UNCHANGED <<calName, store, hist>>

\* delete_event, lines 256-263: event.delete() and the return of True
DeleteRemove(gone_raises) ==
  /\ InRace
  /\ last.delete.pc = "found"
  /\ LET held == last.delete.held[1]
     IN IF held_exists(held, store)
        THEN /\ store' = held_delete(held, store)
             /\ last' = [last EXCEPT !.delete.pc = "returned",
                                     !.delete.outcome = "ok"]
        ELSE /\ store' = store
             /\ last' = [last EXCEPT !.delete.pc = "returned",
                                     !.delete.outcome =
                                       IF gone_raises THEN "store error" ELSE "ok"]
  /\ UNCHANGED <<calName, hist>>

BothReturned ==
  InRace /\ last.update.pc = "returned" /\ last.delete.pc = "returned"

\* both callers have read the outcome of their call
RaceEnds ==
  /\ BothReturned
  /\ last' = [op |-> "none"]
  /\ UNCHANGED <<calName, store, hist>>

NextRace ==
  \/ \E q \in RaceRequests : RaceBegins(NewUid, q)
  \/ UpdateFind
  \/ UpdateLocate
  \/ \E g \in BOOLEAN : UpdateDeleteOld(g)
  \/ UpdateSave
  \/ DeleteFind
  \/ \E g \in BOOLEAN : DeleteRemove(g)
  \/ RaceEnds

SpecRace == InitRace /\ [][NextRace]_vars

\* C30: under interleaving of a delete_event call and an update_event call
\* on the same identifier, once delete_event has returned true the record
\* is absent from every collection after both calls have returned: an
\* update_event that resolved the record before the deletion does not
\* re-create it with its save.
C30_DeletedStaysDeleted ==
  (BothReturned /\ last.delete.outcome = "ok")
  => find_event_by_id(last.event_id, store, {}, FALSE).cal = 0

============================================================================
